---------------------------- MODULE Spec2Model ----------------------------
(***************************************************************************)
(* ginprov: the worker pool (server/worker_pool.go), the atomic writer,    *)
(* the Site cache and the single-flight Server of package server.          *)
(*                                                                         *)
(* SpecPool / SpecPoolFair : the WorkerPool alone, driven by arbitrary     *)
(*                           DoWork callers and one Close.                 *)
(* Spec                    : one Server with its Site, Prompter and disk   *)
(*                           directory, served by the same WorkerPool,     *)
(*                           under arbitrary clients, model and disk.      *)
(* SpecRace                : the same Server on a new directory under a    *)
(*                           fixed sequence of requests, a model that      *)
(*                           always answers and a disk that never fails.   *)
(* SpecUnsafe              : the Server on a directory that holds a page   *)
(*                           but no outline.txt (the safety probe is asked *)
(*                           again).                                       *)
(* SpecOverload /          : four requests against the full work queue;    *)
(*   SpecOverloadFair        with fairly scheduled workers.                *)
(* SpecLocks /             : two concurrent generations with every Lock    *)
(*   SpecLocksFair           and Unlock of the Server, Site and outline    *)
(*                           mutexes as a step; with fair scheduling.      *)
(* SpecPanic               : a GenerateFunc that may panic.                *)
(* SpecOutline             : the prompter's outline initialization, step   *)
(*                           by step.                                      *)
(* SpecRaceFail            : the clients of SpecRace when the model may    *)
(*                           fail to answer for a linked page.             *)
(* SpecSanitize            : generateHTML's sanitizing, transforming and   *)
(*                           rendering of one document of the model.       *)
(* SpecSanitizeURL         : sanitizeURL applied to a URL and to its own   *)
(*                           result.                                       *)
(* SpecLinks               : pages whose URLs go through sanitizeURL, and  *)
(*                           a links.txt whose append may fail.            *)
(* SpecProgress            : a generation that streams several chunks.     *)
(* SpecHttp                : Spec behind the handler of createHTTPHandler  *)
(*                           (main.go), which holds the process mutex.     *)
(***************************************************************************)
EXTENDS Naturals, Integers, Sequences, FiniteSets, TLC

(* ------------------------------ bounds --------------------------------- *)

\* numWorkers argument of NewWorkerPool
NumWorkers == 2
\* workChannelCapacity argument of NewWorkerPool
WorkChannelCapacity == 2
\* number of DoWork calls made on the pool
MaxItems == 4

\* number of HTTP requests the Server receives from arbitrary clients
MaxRequests == 2
\* number of requests in flight at the same time
MaxInFlight == 3
\* longest artifact, in bytes
MaxLen == 2
\* longest URL given to sanitizeURL, in pieces
MaxUrlLen == 4
\* number of progress chunks one generation emits at most
MaxChunks == 5
\* number of progress chunks one generation emits at most under SpecLocks
LockChunks == 2

Workers == 1..NumWorkers
Items == 1..MaxItems

\* the requests of the scripted clients: the index page, then four times a
\* page that the generated pages link to
RaceScript == <<"index.html", "c.html", "c.html", "c.html", "c.html">>

Requests == 1..(IF MaxRequests > Len(RaceScript) THEN MaxRequests ELSE Len(RaceScript))

VARIABLES
    workCh,      \* WorkerPool.workCh: the buffered channel, oldest item first
    chClosed,    \* close(w.workCh) has run
    wg,          \* WorkerPool.wg: workers that have not called Done
    wpc,         \* each worker's position in workerLoop
    wItem,       \* the item r a worker holds after <-w.workCh (<<>>: none yet)
    nextItem,    \* number of DoWork calls made so far
    ret,         \* what each DoWork call returned
    doCount,     \* how often do() was called for an item
    doDone,      \* do() has returned for the item
    acceptOrder, \* items in the order their DoWork returned true
    recvOrder,   \* items in the order workers received them
    startOrder,  \* items in the order their do() was called
    closePc,     \* position of the one Close caller
    sinceSubmit  \* what the workers did since the last DoWork call: received, returned

poolVars == <<workCh, chClosed, wg, wpc, wItem, nextItem, ret, doCount, doDone,
              acceptOrder, recvOrder, startOrder, closePc, sinceSubmit>>

\* what the pool specifications record about DoWork calls; the Server leaves it alone
poolHist == <<chClosed, wg, nextItem, ret, doCount, doDone,
              acceptOrder, recvOrder, startOrder, closePc, sinceSubmit>>

VARIABLES
    \* HTTP requests (goroutines running Server.Get)
    nextReq,     \* number of requests received so far
    rpc,         \* each request's position in Server.Get
    rslug,       \* r.URL.Path of the request
    rfn,         \* the HandleFunc that Site.Handle returned to the request
    rgen,        \* the slug whose GenerateFunc Site.Handle returned ("" when nil)
    progressCh,  \* the request's progress channel
    resultCh,    \* the request's result channel
    cancelled,   \* requests whose context is done
    got,         \* what the final HandleFunc did when the request ran it
    conc,        \* the requests that had missed the cache and had no result yet when the request arrived
    \* Server
    pending,     \* Server.pending: key -> waiters, in registration order
    \* defaultSite
    resInit,     \* s.resources != nil
    resources,   \* s.resources: slug -> the Resource object it points to
    resSize,     \* resource.size of every Resource object allocated so far
    resMu,       \* resource.mu of every Resource object: the worker holding it, or 0
    unsafe,      \* s.unsafe
    \* defaultPrompter
    outline,     \* p.outline
    \* the site's directory
    files,       \* {slug}: name -> bytes, for the names that exist
    tmps,        \* {slug}.tmp: slug -> bytes, for the temporary files that exist
    linksTxt,    \* links.txt: <<>> when absent, else <<lines>>
    outlineTxt,  \* outline.txt: "" when absent, else its content
    \* workers running Server.generate
    wl,          \* each worker's locals while it runs a generator
    fatal,       \* a worker goroutine panicked outside any recover: the process is gone
    \* history
    writes,      \* slug -> number of writeFileAtomic calls of this process that renamed
    complete     \* slug -> the byte strings a completed writeFileAtomic (or an earlier
                 \*         process) put under the name

VARIABLES
    \* one call of a function of package sanitize, or of sanitizeURL
    sanPc,       \* how far the call has got
    sanArg,      \* the argument it was given
    sanRes       \* what it has returned or built so far

sanVars == <<sanPc, sanArg, sanRes>>

reqVars == <<nextReq, rpc, rslug, rfn, rgen, progressCh, resultCh, cancelled, got, conc>>
siteVars == <<resInit, resources, resSize, resMu, unsafe, outline>>
diskVars == <<files, tmps, linksTxt, outlineTxt>>
histVars == <<writes, complete>>
serverVars == <<reqVars, pending, siteVars, diskVars, wl, fatal, histVars>>
srvVars == <<serverVars, sanVars>>

vars == <<poolVars, srvVars>>

(* --------------------------- worker_pool.go ---------------------------- *)

\* mutant: the channel is made one slot larger than asked for
ChanCapOffByOne == WorkChannelCapacity + 1

\* make(chan workWrapper, workChannelCapacity)
ChanCap == WorkChannelCapacity

\* select { case ch <- v: return true; default: return false }
\* A send on a buffered channel succeeds iff the buffer has room (a receiver
\* blocked in <-ch implies an empty buffer, so a hand-off is a send followed by
\* that receiver's receive).
\* mutant: the send is refused one item early
trySendFullEarly(ch, cap) == Len(ch) + 1 >= cap

trySendFull(ch, cap) == Len(ch) >= cap

trySend(ch, cap, v) ==
    IF trySendFull(ch, cap)
    THEN [ok |-> FALSE, ch |-> ch]
    ELSE [ok |-> TRUE, ch |-> Append(ch, v)]

\* NewWorkerPool: the channel is empty, every worker is started and counted
InitPool ==
    /\ workCh = <<>>
    /\ chClosed = FALSE
    /\ wg = NumWorkers
    /\ wpc = [w \in Workers |-> "recv"]
    /\ wItem = [w \in Workers |-> <<>>]
    /\ nextItem = 0
    /\ ret = [i \in Items |-> "none"]
    /\ doCount = [i \in Items |-> 0]
    /\ doDone = [i \in Items |-> FALSE]
    /\ acceptOrder = <<>>
    /\ recvOrder = <<>>
    /\ startOrder = <<>>
    /\ closePc = "idle"
    /\ sinceSubmit = {}

\* DoWork's body: trySend(w.workCh, workWrapper{ctx, wrapDo(do), work})
DoWorkSend(v) == trySend(workCh, ChanCap, v)

\* DoWork: one trySend on workCh. On a closed channel the select's send case
\* panics in the calling goroutine; the pool itself is left as it was.
DoWork ==
    /\ nextItem < MaxItems
    /\ LET i == nextItem + 1
           s == DoWorkSend(i)
       IN  /\ nextItem' = i
           /\ IF chClosed
              THEN /\ ret' = [ret EXCEPT ![i] = "panic"]
                   /\ UNCHANGED <<workCh, acceptOrder>>
              ELSE /\ workCh' = s.ch
                   /\ ret' = [ret EXCEPT ![i] = IF s.ok THEN "true" ELSE "false"]
                   /\ acceptOrder' = IF s.ok THEN Append(acceptOrder, i) ELSE acceptOrder
    /\ sinceSubmit' = {}
    /\ UNCHANGED <<chClosed, wg, wpc, wItem, doCount, doDone, recvOrder, startOrder, closePc>>
    /\ UNCHANGED srvVars

\* mutant: the receive takes the newest buffered item
chanRecvNewest(ch) == [v |-> ch[Len(ch)], ch |-> SubSeq(ch, 1, Len(ch) - 1)]

\* r, ok := <-w.workCh with a value: the oldest buffered item
chanRecv(ch) == [v |-> Head(ch), ch |-> Tail(ch)]

\* the receive itself, as every user of the pool sees it
Receive(w) ==
    /\ wpc[w] = "recv"
    /\ workCh # <<>>
    /\ LET r == chanRecv(workCh)
       IN  /\ workCh' = r.ch
           /\ wItem' = [wItem EXCEPT ![w] = <<r.v>>]
    /\ wpc' = [wpc EXCEPT ![w] = "got"]

WorkerRecv(w) ==
    /\ Receive(w)
    /\ recvOrder' = Append(recvOrder, wItem'[w][1])
    /\ sinceSubmit' = sinceSubmit \cup {"received"}
    /\ UNCHANGED <<chClosed, wg, nextItem, ret, doCount, doDone, acceptOrder, startOrder, closePc>>
    /\ UNCHANGED srvVars

\* mutant: a worker leaves as soon as the channel is closed
workerMayExitOnClose == chClosed

\* r, ok := <-w.workCh with ok = false (closed and drained): break, deferred wg.Done
workerMayExit == chClosed /\ workCh = <<>>

WorkerExit(w) ==
    /\ wpc[w] = "recv"
    /\ workerMayExit
    /\ wpc' = [wpc EXCEPT ![w] = "exited"]
    /\ wg' = wg - 1
    /\ UNCHANGED <<workCh, chClosed, wItem, nextItem, ret, doCount, doDone,
                   acceptOrder, recvOrder, startOrder, closePc, sinceSubmit>>
    /\ UNCHANGED srvVars

\* r.do(r.ctx, r.work) is entered
WorkerCall(w) ==
    /\ wpc[w] = "got"
    /\ wpc' = [wpc EXCEPT ![w] = "do"]
    /\ doCount' = [doCount EXCEPT ![wItem[w][1]] = @ + 1]
    /\ startOrder' = Append(startOrder, wItem[w][1])
    /\ UNCHANGED <<workCh, chClosed, wg, wItem, nextItem, ret, doDone,
                   acceptOrder, recvOrder, closePc, sinceSubmit>>
    /\ UNCHANGED srvVars

\* r.do returns (do() must not panic, worker_pool.go:33); back to the receive
WorkerReturn(w) ==
    /\ wpc[w] = "do"
    /\ wpc' = [wpc EXCEPT ![w] = "recv"]
    /\ doDone' = [doDone EXCEPT ![wItem[w][1]] = TRUE]
    /\ sinceSubmit' = sinceSubmit \cup {"returned"}
    /\ UNCHANGED <<workCh, chClosed, wg, wItem, nextItem, ret, doCount,
                   acceptOrder, recvOrder, startOrder, closePc>>
    /\ UNCHANGED srvVars

\* Close: close(w.workCh)
CloseChannel ==
    /\ closePc = "idle"
    /\ chClosed' = TRUE
    /\ closePc' = "wait"
    /\ UNCHANGED <<workCh, wg, wpc, wItem, nextItem, ret, doCount, doDone,
                   acceptOrder, recvOrder, startOrder, sinceSubmit>>
    /\ UNCHANGED srvVars

\* mutant: Close does not wait for the workers
wgWaitSkipped == TRUE

\* Close: w.wg.Wait() returns once the counter is zero
wgWait == wg = 0

CloseReturn ==
    /\ closePc = "wait"
    /\ wgWait
    /\ closePc' = "returned"
    /\ UNCHANGED <<workCh, chClosed, wg, wpc, wItem, nextItem, ret, doCount, doDone,
                   acceptOrder, recvOrder, startOrder, sinceSubmit>>
    /\ UNCHANGED srvVars

WorkerStep(w) ==
    WorkerRecv(w) \/ WorkerExit(w) \/ WorkerCall(w) \/ WorkerReturn(w)

(* ------------------------- site.go: the data --------------------------- *)

IndexSlug == "index.html"
NotFoundSlug == "not-found.html"

\* the paths requested: the index page, a page the model may link to (not a
\* known slug until then), and an image
RequestPaths == {"index.html", "c.html", "p.jpg"}

\* the URLs (after sanitizeURL and the transformer) a generated page may hold
LinkCands == {"c.html"}

Slugs == RequestPaths \cup LinkCands \cup {IndexSlug, NotFoundSlug}

\* strings.HasSuffix(slug, ExtensionHTML) / extensionForSlug
IsHTML(slug) == slug \in {"index.html", "not-found.html", "c.html"}

\* extensionForSlug: the slug from its last '.', for the slugs of the model
\* ("": the slug has no '.', the function panics with ErrInvalidSlug)
ExtensionHTML == ".html"
ExtensionJPG == ".jpg"
extensionForSlug(slug) ==
    IF IsHTML(slug) THEN ExtensionHTML
    ELSE IF slug \in {"p.jpg"} THEN ExtensionJPG
    ELSE ""

\* contentTypeForSlug and the switch of defaultSite.generate return for these
\* extensions and panic with ErrInvalidSlug for every other slug
ValidSlug(slug) == extensionForSlug(slug) \in {ExtensionHTML, ExtensionJPG}

(* --------------------------- site.go: sanitizeURL ----------------------- *)

\* A string is the sequence of its pieces: a piece is a run of letters or
\* digits (case kept), one other character, or one percent escape.
\*   "p.png" = <<"p", ".", "png">>      "/C/p" = <<"/", "C", "/", "p">>
\* the runs that hold an upper-case letter, and what strings.ToLower makes of them
UpperRuns == {"C", "PNG"}
toLower(a) == CASE a = "C" -> "c" [] a = "PNG" -> "png" [] OTHER -> a
ToLower(v) == [i \in 1..Len(v) |-> toLower(v[i])]

\* the pieces that are not runs of letters and digits
Escapes == {"%20", "%zz"}
Punctuation == {".", "/", "?", ":", "-", " ", ","}

\* the string itself
RECURSIVE Str(_)
Str(v) == IF v = <<>> THEN "" ELSE Head(v) \o Str(Tail(v))

\* strings.IndexByte / LastIndexByte, 0 for "not found"
IndexOf(v, a) ==
    IF \E i \in 1..Len(v) : v[i] = a
    THEN CHOOSE i \in 1..Len(v) : v[i] = a /\ \A j \in 1..(i - 1) : v[j] # a
    ELSE 0
LastIndexOf(v, a) ==
    IF \E i \in 1..Len(v) : v[i] = a
    THEN CHOOSE i \in 1..Len(v) : v[i] = a /\ \A j \in (i + 1)..Len(v) : v[j] # a
    ELSE 0

\* the pieces from i on, and the pieces before i
From(v, i) == SubSeq(v, i, Len(v))
Before(v, i) == SubSeq(v, 1, i - 1)

\* net/url getScheme: letters go on; a digit, '+', '-' or '.' goes on unless it
\* is the first character; ':' ends the scheme, and is an error as the first
\* character; any other character, or the end, means there is no scheme
RECURSIVE getScheme(_, _)
getScheme(v, i) ==
    IF i > Len(v) THEN [err |-> FALSE, has |-> FALSE, rest |-> v]
    ELSE IF v[i] = ":"
         THEN IF i = 1 THEN [err |-> TRUE, has |-> FALSE, rest |-> v]
              ELSE [err |-> FALSE, has |-> TRUE, rest |-> From(v, i + 1)]
    ELSE IF v[i] \in {"-", "."}
         THEN IF i = 1 THEN [err |-> FALSE, has |-> FALSE, rest |-> v]
              ELSE getScheme(v, i + 1)
    ELSE IF v[i] \in Escapes \cup Punctuation \/ (i = 1 /\ v[i] = "20")
         THEN [err |-> FALSE, has |-> FALSE, rest |-> v]
    ELSE getScheme(v, i + 1)

\* net/url unescape of the path: %20 is a space, %zz is not an escape
unescapePath(v) == [i \in 1..Len(v) |-> IF v[i] = "%20" THEN " " ELSE v[i]]

ParseError == [err |-> TRUE, path |-> <<>>, query |-> <<>>]

\* url.Parse(v) for a string without '#', control characters and "//": the
\* scheme is split off, then the query at the first '?'; a rest that does not
\* begin with '/' is opaque when there is a scheme (the path is empty) and
\* must have no ':' in its first segment when there is none; the path is the
\* rest, unescaped
cutQuery(r) ==
    IF IndexOf(r, "?") = 0 THEN [rest |-> r, query |-> <<>>]
    ELSE [rest |-> Before(r, IndexOf(r, "?")), query |-> From(r, IndexOf(r, "?") + 1)]
firstSegment(rest) == IF IndexOf(rest, "/") = 0 THEN rest ELSE Before(rest, IndexOf(rest, "/"))
parsePath(sch, c) ==
    IF sch.err THEN ParseError
    ELSE IF IndexOf(c.rest, "/") # 1 /\ sch.has
    THEN [err |-> FALSE, path |-> <<>>, query |-> c.query]
    ELSE IF IndexOf(c.rest, "/") # 1 /\ IndexOf(firstSegment(c.rest), ":") # 0 THEN ParseError
    ELSE IF IndexOf(c.rest, "%zz") # 0 THEN ParseError
    ELSE [err |-> FALSE, path |-> unescapePath(c.rest), query |-> c.query]
parseRest(sch) == parsePath(sch, cutQuery(sch.rest))
urlParse(v) == parseRest(getScheme(v, 1))

\* sanitizeRe.ReplaceAllString(safe, "-"): every character outside [a-z0-9]
\* becomes '-' (an escape left in the query is three characters)
RECURSIVE replaceUnsafe(_)
replaceUnsafe(v) ==
    IF v = <<>> THEN <<>>
    ELSE (CASE Head(v) = "%20" -> <<"-", "20">>
            [] Head(v) = "%zz" -> <<"-", "zz">>
            [] Head(v) \in Punctuation -> <<"-">>
            [] Head(v) = "C" -> <<"-">>
            [] Head(v) = "PNG" -> <<"-", "-", "-">>
            [] OTHER -> <<Head(v)>>) \o replaceUnsafe(Tail(v))

\* strings.Trim(safe, "-")
RECURSIVE trimLeft(_)
trimLeft(v) == IF v # <<>> /\ Head(v) = "-" THEN trimLeft(Tail(v)) ELSE v
RECURSIVE trimRight(_)
trimRight(v) == IF v # <<>> /\ v[Len(v)] = "-" THEN trimRight(Before(v, Len(v))) ELSE v
Trim(v) == trimRight(trimLeft(v))

\* the literals sanitizeURL returns and appends
DataSentinel == "data:"
dataURL == <<"data", ":">>
indexURL == <<"index", ".", "html">>
extJPG == <<".", "jpg">>
extHTML == <<".", "html">>
ImageExts == {<<".", e>> : e \in {"jpg", "jpeg", "png", "gif", "webp", "svg"}}
PageExts == {<<>>, <<".", "html">>, <<".", "htm">>}

\* mutant: the extension is left in the path that is made safe
stemWithExt(path, idx) == path

\* path = path[:idx]
stemOf(path, idx) == Before(path, idx)

\* the switch on ext
appendExt(safe, ext) ==
    IF safe = <<>> THEN indexURL
    ELSE IF ext \in ImageExts THEN safe \o extJPG
    ELSE IF ext \in PageExts THEN safe \o extHTML
    ELSE dataURL

\* path += "?" + strings.ToLower(u.RawQuery), and safe
makeSafe(path, query) ==
    Trim(replaceUnsafe(IF query # <<>> THEN path \o <<"?">> \o ToLower(query) ELSE path))

\* ext = path[idx:] and path = path[:idx] when the path has a '.'
splitExt(path, idx, query) ==
    IF idx > 0 THEN appendExt(makeSafe(stemOf(path, idx), query), From(path, idx))
    ELSE appendExt(makeSafe(path, query), <<>>)

lowerPath(path, query) == splitExt(path, LastIndexOf(path, "."), query)

sanitizeParsed(u) ==
    IF u.err THEN dataURL
    ELSE IF u.path = <<>> THEN indexURL
    ELSE lowerPath(ToLower(u.path), u.query)

\* sanitizeURL(v), the result as pieces
sanitizeURL(v) == sanitizeParsed(urlParse(v))

\* the URLs of the model's documents: a page, an image, a style sheet, and a
\* URL that url.Parse rejects
RawURLs == {<<"c">>, <<"p", ".", "png">>, <<"style", ".", "css">>, <<"%zz">>}

\* HTMLSanitizeAndExtractUrls: urls[sanitizeURL(v)] = struct{}{} for every URL
\* attribute v of the document, whatever sanitizeURL returned
ExtractUrls(hrefs) == {Str(sanitizeURL(u)) : u \in hrefs}

\* the byte strings the model's output renders or encodes to; <<>> is empty output
Outputs == {[k \in 1..n |-> n] : n \in 0..MaxLen}

\* context.Background(); a request's context is its number
Background == 0

\* mutant: the generator is given the first waiter's request context
WorkCtxOfRequest(r) == r

\* singleFlightGenerate: ctx := context.Background(), handed to DoWork
WorkCtx(r) == Background

\* make(chan string, progressChannelLength)
ProgressChannelLength == 4

\* make(chan HandleFunc, 1)
ResultChannelLength == 1

\* the HandleFuncs that Handle and the GenerateFunc return
\*   accepted : handleGenerate's handleFunc (202 and the content type)
\*   file     : handleFile(slug, size)
\*   bytes    : the closure over v and r returned after a generation
\*   unsafe   : returns ErrUnsafe
\*   error    : http.Error(..., 500)
\* the status a response carries: the first WriteHeader or Write on its writer
\* decides it (NoStatus: the handler has written nothing yet)
NoStatus == 0
StatusOK == 200
StatusAccepted == 202
StatusInternalServerError == 500

FnAccepted(slug) == [kind |-> "accepted", slug |-> slug, size |-> 0, v |-> <<>>, rid |-> 0]
FnFile(slug, size) == [kind |-> "file", slug |-> slug, size |-> size, v |-> <<>>, rid |-> 0]
FnBytes(slug, v, rid) == [kind |-> "bytes", slug |-> slug, size |-> 0, v |-> v, rid |-> rid]
FnUnsafe == [kind |-> "unsafe", slug |-> "", size |-> 0, v |-> <<>>, rid |-> 0]
FnError(slug) == [kind |-> "error", slug |-> slug, size |-> 0, v |-> <<>>, rid |-> 0]
FnPanic(slug) == [kind |-> "panic", slug |-> slug, size |-> 0, v |-> <<>>, rid |-> 0]
FnNone == [kind |-> "none", slug |-> "", size |-> 0, v |-> <<>>, rid |-> 0]

\* what pw.Finish wrote after the chunks: nothing (it did not run), the reload
\* script of setReload, or the text of setTextContent
NoTail == "none"
TailReload == "reload"
TailText == "text"

\* what a request's client has received: the kind of response, the slug served,
\* the Content-Length and the body; and, observed as the ServeFunc ran, the
\* length of the file {slug} and whether a writeFileAtomic of {slug} was under way
NoGot == [kind |-> "none", slug |-> "", cl |-> 0, body |-> <<>>, flen |-> 0, inWrite |-> FALSE,
          status |-> NoStatus, chunks |-> <<>>, tail |-> NoTail]

\* a worker's locals outside a generator
NoLocals == [key |-> "", slug |-> "", ctx |-> Background, rid |-> 0, v |-> <<>>,
             urls |-> {}, cur |-> "", sb |-> <<>>, res |-> FnNone, n |-> 0, links |-> <<>>,
             after |-> "", p |-> <<>>]

\* defaultSite.links: NewSite sets it to "" and nothing assigns it afterwards
links == <<>>

\* a function extended or overwritten at one key
Put(f, k, x) == [y \in DOMAIN f \cup {k} |-> IF y = k THEN x ELSE f[y]]
Drop(f, k) == [y \in DOMAIN f \ {k} |-> f[y]]
EmptyMap == [y \in {} |-> 0]

\* the directories a site may start from: a new site; a site an earlier
\* process served (its pages, links.txt and outline.txt on disk)
DiskFresh == [files |-> EmptyMap, linksTxt |-> <<>>, outlineTxt |-> ""]
DiskServed == [files |-> Put(Put(EmptyMap, "index.html", <<1>>), "c.html", <<2, 2>>),
               linksTxt |-> <<<<"c.html", "p.jpg">>>>, outlineTxt |-> "doc"]
Disks == {DiskFresh, DiskServed}

\* a site whose index page an earlier process generated and journaled, and whose
\* outline.txt is missing: initOutline's write of it failed while the outline
\* stayed in the memory of that process
DiskNoOutline == [files |-> Put(EmptyMap, "index.html", <<1>>),
                  linksTxt |-> <<<<"p.jpg">>>>, outlineTxt |-> ""]

\* NewServer, NewSite, NewPrompter over directory d; no request received yet
InitServer(d) ==
    /\ nextReq = 0
    /\ rpc = [r \in Requests |-> "new"]
    /\ rslug = [r \in Requests |-> ""]
    /\ rfn = [r \in Requests |-> FnNone]
    /\ rgen = [r \in Requests |-> ""]
    /\ progressCh = [r \in Requests |-> <<>>]
    /\ resultCh = [r \in Requests |-> <<>>]
    /\ cancelled = {}
    /\ got = [r \in Requests |-> NoGot]
    /\ conc = [r \in Requests |-> {}]
    /\ pending = EmptyMap
    /\ resInit = FALSE
    /\ resources = EmptyMap
    /\ resSize = <<>>
    /\ resMu = <<>>
    /\ unsafe = FALSE
    /\ outline = ""
    /\ files = d.files
    /\ tmps = EmptyMap
    /\ linksTxt = d.linksTxt
    /\ outlineTxt = d.outlineTxt
    /\ wl = [w \in Workers |-> NoLocals]
    /\ fatal = FALSE
    /\ writes = [s \in Slugs |-> 0]
    /\ complete = [s \in Slugs |-> IF s \in DOMAIN d.files THEN {d.files[s]} ELSE {}]

\* no function of package sanitize has been called
NoArg == <<>>
NoRes == <<>>
InitSanitizeIdle == sanPc = "idle" /\ sanArg = NoArg /\ sanRes = NoRes

(* ------------------------ site.go: Site.Handle -------------------------- *)

RECURSIVE LoadLines(_, _)
\* initResources' loop over the lines: stat each and store a new Resource
LoadLines(lines, st) ==
    IF lines = <<>> THEN st
    ELSE LET line == Head(lines)
             size == IF line \in DOMAIN files THEN Len(files[line]) ELSE 0
         IN  LoadLines(Tail(lines),
                       [map |-> Put(st.map, line, Len(st.size) + 1),
                        size |-> Append(st.size, size)])

\* initResources: the two reserved slugs at size 0; without links.txt nothing
\* more, else every line and the two reserved slugs again, each with its size
InitResources ==
    LET seed == [map |-> Put(Put(EmptyMap, IndexSlug, 1), NotFoundSlug, 2), size |-> <<0, 0>>]
    IN  IF linksTxt = <<>> THEN seed
        ELSE LoadLines(linksTxt[1] \o <<IndexSlug, NotFoundSlug>>, seed)

\* the size the site's cache holds for a known slug
SizeOf(slug) == resSize[resources[slug]]

InFlight == {r \in Requests : rpc[r] \notin {"new", "done"}}

\* the requests that missed the cache and have no result yet: between Handle
\* and singleFlightGenerate, or registered under a pending entry
Outstanding ==
    {r \in InFlight : \/ rpc[r] = "register"
                      \/ /\ rslug[r] \in DOMAIN pending
                         /\ \E n \in 1..Len(pending[rslug[r]]) : pending[rslug[r]][n] = r}

\* a Handle that looked the resource (of this size) up before it read s.unsafe
HandleRefusesMisses(size) == unsafe /\ size = 0

\* Handle's first statement: if s.unsafe, return ErrUnsafe, for every slug
HandleRefuses(size) == unsafe

\* Server.Get up to the return of Site.Handle (and of the second Handle, for the
\* not-found slug, when the path is not a known slug)
Arrive(path) ==
    /\ ~fatal
    /\ Cardinality(InFlight) < MaxInFlight
    /\ LET r == nextReq + 1
           st == IF resInit THEN [map |-> resources, size |-> resSize] ELSE InitResources
           slug == IF path \in DOMAIN st.map THEN path ELSE NotFoundSlug
           size == st.size[st.map[slug]]
       IN  /\ nextReq' = r
           /\ rslug' = [rslug EXCEPT ![r] = path]
           /\ conc' = [conc EXCEPT ![r] = Outstanding]
           /\ IF HandleRefuses(size)
              THEN /\ rpc' = [rpc EXCEPT ![r] = "done"]
                   /\ got' = [got EXCEPT ![r] = [NoGot EXCEPT !.kind = "unsafeHandler",
                                                              !.status = StatusOK]]
                   /\ UNCHANGED <<rfn, rgen, resInit, resources, resSize, resMu>>
              ELSE /\ resInit' = TRUE
                   /\ resources' = st.map
                   /\ resSize' = st.size
                   /\ resMu' = [i \in 1..Len(st.size) |-> IF resInit THEN resMu[i] ELSE 0]
                   /\ got' = got
                   /\ IF size > 0
                      THEN /\ rfn' = [rfn EXCEPT ![r] = FnFile(slug, size)]
                           /\ rgen' = rgen
                           /\ rpc' = [rpc EXCEPT ![r] = "serve"]
                      ELSE /\ rfn' = [rfn EXCEPT ![r] = FnAccepted(slug)]
                           /\ rgen' = [rgen EXCEPT ![r] = slug]
                           /\ rpc' = [rpc EXCEPT ![r] = "register"]
    /\ UNCHANGED <<progressCh, resultCh, cancelled, pending, unsafe, outline,
                   diskVars, wl, fatal, histVars, poolVars, sanVars>>

\* a client sends one more request, for any of the paths
ReqHandle(path) == nextReq < MaxRequests /\ Arrive(path)

\* the scripted clients send their next request
ReqScripted == nextReq < Len(RaceScript) /\ Arrive(RaceScript[nextReq + 1])

\* the clients that overload the pool: three different paths, the last one
\* asked for again
OverloadScript == <<"index.html", "c.html", "p.jpg", "p.jpg">>
ReqOverload == nextReq < Len(OverloadScript) /\ Arrive(OverloadScript[nextReq + 1])

\* running a HandleFunc against a response writer: what it sends
RunFn(fn) ==
    LET flen == IF fn.slug \in DOMAIN files THEN Len(files[fn.slug]) ELSE 0
        inWrite == \E w \in Workers : wpc[w] \in {"write", "rename"} /\ wl[w].slug = fn.slug
    IN  CASE fn.kind = "file" ->
                IF fn.slug \notin DOMAIN files
                THEN [NoGot EXCEPT !.kind = "openError", !.slug = fn.slug]
                ELSE [kind |-> IF flen = fn.size THEN "served" ELSE "sizeError",
                      slug |-> fn.slug, cl |-> fn.size, body |-> files[fn.slug],
                      flen |-> flen, inWrite |-> inWrite, status |-> StatusOK, chunks |-> <<>>,
                 tail |-> NoTail]
          [] fn.kind = "bytes" ->
                [kind |-> "served", slug |-> fn.slug, cl |-> resSize[fn.rid], body |-> fn.v,
                 flen |-> flen, inWrite |-> inWrite, status |-> StatusOK, chunks |-> <<>>,
                 tail |-> NoTail]
          [] fn.kind = "unsafe" -> [NoGot EXCEPT !.kind = "unsafe", !.slug = fn.slug]
          [] fn.kind = "panic" -> [NoGot EXCEPT !.kind = "generatePanic", !.slug = fn.slug,
                                                !.status = StatusInternalServerError]
          [] OTHER -> [NoGot EXCEPT !.kind = "error500", !.slug = fn.slug,
                                    !.status = StatusInternalServerError]

\* pw.Start wrote the shell with this status
StartStatusOK == StatusOK
StartStatus == StatusAccepted

\* the immediate handleFunc of a miss wrote the stub with this status
StubStatus == StatusAccepted

\* DefaultProgressWriter.Finish: v runs against a recorder; ErrUnsafe, or no error
\* and a recorded code of 0, 200 or 202, ends in setReload, anything else in
\* setTextContent
Finish(fn) ==
    LET ww == RunFn(fn)
    IN  IF ww.kind = "unsafe" THEN TailReload
        ELSE IF ww.kind \in {"openError", "sizeError"} THEN TailText
        ELSE IF ww.status \in {NoStatus, StatusOK, StatusAccepted} THEN TailReload
        ELSE TailText

\* mutant: the final HandleFunc is always run directly on the response
RespondDirect(r, fn) ==
    [RunFn(fn) EXCEPT !.status = IF got[r].status # NoStatus THEN got[r].status ELSE @,
                      !.chunks = got[r].chunks]

\* a HandleFunc run on the writer of request r, after the chunks it has been
\* sent: a WriteHeader after the header was written changes nothing, the
\* status stays what was sent first; handleWithProgress runs it through
\* pw.Finish once pw.Start has been called, and directly otherwise
Respond(r, fn) ==
    [RunFn(fn) EXCEPT !.status = IF got[r].status # NoStatus THEN got[r].status ELSE @,
                      !.chunks = got[r].chunks,
                      !.tail = IF rpc[r] = "wait1" THEN Finish(fn) ELSE NoTail]

\* Server.Get with a nil generateFunc: handleFunc(w)
ReqServe(r) ==
    /\ ~fatal
    /\ rpc[r] = "serve"
    /\ got' = [got EXCEPT ![r] = RunFn(rfn[r])]
    /\ rpc' = [rpc EXCEPT ![r] = "done"]
    /\ UNCHANGED <<nextReq, rslug, rfn, rgen, progressCh, resultCh, cancelled, conc,
                   pending, siteVars, diskVars, wl, fatal, histVars, poolVars, sanVars>>

(* ----------------- server.go: single-flight and waiting ----------------- *)

\* a rejection that returned without the delete
pendingKeptOnReject(key, r) == Put(pending, key, <<r>>)

\* the pending map when DoWork rejected the first waiter r: the entry that was
\* stored before the DoWork call is deleted, still under s.mu
pendingOnReject(key, r) == Drop(Put(pending, key, <<r>>), key)

\* singleFlightGenerate, under s.mu, followed by the choice of handleWithProgress
\* or handleWithoutProgress (whose first act is the 202 of handleFunc, which
\* panics in contentTypeForSlug, in the request's goroutine, when the slug has
\* no valid extension)
ReqRegister(r) ==
    /\ ~fatal
    /\ rpc[r] = "register"
    /\ LET key == rslug[r]
           first == key \notin DOMAIN pending
           item == [key |-> key, slug |-> rgen[r], ctx |-> WorkCtx(r)]
           s == DoWorkSend(item)
       IN  IF first /\ ~s.ok
           THEN /\ rpc' = [rpc EXCEPT ![r] = "done"]
                /\ got' = [got EXCEPT ![r] = [NoGot EXCEPT !.kind = "overCapacity",
                                                           !.status = StatusInternalServerError]]
                /\ pending' = pendingOnReject(key, r)
                /\ workCh' = workCh
           ELSE /\ pending' = Put(pending, key, IF first THEN <<r>> ELSE Append(pending[key], r))
                /\ workCh' = IF first THEN s.ch ELSE workCh
                /\ IF ~IsHTML(key) /\ ~ValidSlug(rgen[r])
                   THEN /\ rpc' = [rpc EXCEPT ![r] = "done"]
                        /\ got' = [got EXCEPT ![r] = [NoGot EXCEPT !.kind = "invalidSlugPanic",
                                                                   !.slug = rgen[r]]]
                   ELSE /\ rpc' = [rpc EXCEPT ![r] = IF IsHTML(key) THEN "wait0" ELSE "waitStub"]
                        /\ got' = [got EXCEPT ![r].status =
                                        IF IsHTML(key) THEN NoStatus ELSE StubStatus]
    /\ UNCHANGED <<nextReq, rslug, rfn, rgen, progressCh, resultCh, cancelled, conc,
                   siteVars, diskVars, wl, fatal, histVars, wpc, wItem, poolHist, sanVars>>

Waiting == {"wait0", "wait1", "waitStub"}

\* handleWithProgress: case v := <-progressCh (Start before the first Chunk),
\* and pw.Chunk(w, v)
ReqProgress(r) ==
    /\ ~fatal
    /\ rpc[r] \in {"wait0", "wait1"}
    /\ progressCh[r] # <<>>
    /\ progressCh' = [progressCh EXCEPT ![r] = chanRecv(@).ch]
    /\ rpc' = [rpc EXCEPT ![r] = "wait1"]
    /\ got' = [got EXCEPT ![r].status = IF rpc[r] = "wait0" THEN StartStatus ELSE @,
                          ![r].chunks = Append(@, chanRecv(progressCh[r]).v)]
    /\ UNCHANGED <<nextReq, rslug, rfn, rgen, resultCh, cancelled, conc,
                   pending, siteVars, diskVars, wl, fatal, histVars, poolVars, sanVars>>

\* case handleFunc := <-resultCh: run it (directly, or by pw.Finish on a recorder);
\* the handler returns and its two channels, detached from pending, are dropped
ReqResult(r) ==
    /\ ~fatal
    /\ rpc[r] \in Waiting
    /\ resultCh[r] # <<>>
    /\ resultCh' = [resultCh EXCEPT ![r] = Tail(@)]
    /\ progressCh' = [progressCh EXCEPT ![r] = <<>>]
    /\ got' = [got EXCEPT ![r] = Respond(r, Head(resultCh[r]))]
    /\ rpc' = [rpc EXCEPT ![r] = "done"]
    /\ UNCHANGED <<nextReq, rslug, rfn, rgen, cancelled, conc,
                   pending, siteVars, diskVars, wl, fatal, histVars, poolVars, sanVars>>

\* the request's context is cancelled and the select takes case <-ctx.Done():
\* "abandoned" while no result has been sent, "abandonedReady" past one
ReqCancel(r) ==
    /\ ~fatal
    /\ rpc[r] \in Waiting
    /\ cancelled' = cancelled \cup {r}
    /\ got' = [got EXCEPT ![r] = [NoGot EXCEPT !.kind = IF resultCh[r] = <<>> THEN "abandoned"
                                                        ELSE "abandonedReady",
                                                !.status = got[r].status,
                                                !.chunks = got[r].chunks]]
    /\ rpc' = [rpc EXCEPT ![r] = "done"]
    /\ UNCHANGED <<nextReq, rslug, rfn, rgen, progressCh, resultCh, conc,
                   pending, siteVars, diskVars, wl, fatal, histVars, poolVars, sanVars>>

(* ------------- server.go / site.go: the worker's generator ------------- *)

Item(w) == wItem[w][1]

\* r.mu.Unlock() (deferred) as the GenerateFunc returns f; Server.generate's
\* deferred function runs next
Return(w, f) ==
    /\ wl' = [wl EXCEPT ![w].res = f]
    /\ wpc' = [wpc EXCEPT ![w] = "detach"]

Unlocked(rid) == [resMu EXCEPT ![rid] = 0]

\* the worker's receive, in the Server's pool
SrvReceive(w) ==
    /\ ~fatal
    /\ Receive(w)
    /\ UNCHANGED <<poolHist, srvVars>>

\* Server.generate calls the GenerateFunc: r, err := s.getResource(slug)
GenGetResource(w) ==
    /\ ~fatal
    /\ wpc[w] = "got"
    /\ wl' = [wl EXCEPT ![w] = [NoLocals EXCEPT !.key = Item(w).key, !.slug = Item(w).slug,
                                                !.ctx = Item(w).ctx,
                                                !.rid = resources[Item(w).slug]]]
    /\ wpc' = [wpc EXCEPT ![w] = "lock"]
    /\ UNCHANGED <<workCh, wItem, poolHist, reqVars, pending, siteVars, diskVars, fatal, histVars, sanVars>>

\* a callback that sends to every request for the slug that has not returned
SubscribersBySlug(key) == {r \in Requests : rslug[r] = key /\ rpc[r] \in {"wait0", "wait1", "waitStub"}}

\* p := s.pending[slug]: the waiters registered under the key now
Subscribers(key) ==
    {r \in Requests : key \in DOMAIN pending /\ \E n \in 1..Len(pending[key]) : pending[key][n] = r}

\* mutant: a callback whose send waits for room, so that the loop stops at the
\* first waiter whose channel is full
PublishBlocking(key, chunk) ==
    [r \in Requests |->
        IF /\ r \in Subscribers(key)
           /\ \A q \in Subscribers(key) : q <= r => Len(progressCh[q]) < ProgressChannelLength
        THEN Append(progressCh[r], chunk)
        ELSE progressCh[r]]

\* the progress callback of Server.generate: under s.mu, trySend to every
\* waiter registered under the key
Publish(key, chunk) ==
    [r \in Requests |->
        IF r \in Subscribers(key)
        THEN trySend(progressCh[r], ProgressChannelLength, chunk).ch
        ELSE progressCh[r]]

\* mutant: the generation goes on without the Resource's mutex
resourceMuUnguarded(rid) == TRUE

\* r.mu.Lock() returns when no worker holds the Resource's mutex
resourceMuFree(rid) == resMu[rid] = 0

\* r.mu.Lock(); if r.size > 0 { return s.handleFile(slug, r.size) }; else
\* defaultSite.generate begins: progress("Generating ..."), and links := s.links
\* under s.mu, the list that GetPromptForSlug puts into the prompt
GenLock(w) ==
    /\ ~fatal
    /\ wpc[w] = "lock"
    /\ resourceMuFree(wl[w].rid)
    /\ IF resSize[wl[w].rid] > 0
       THEN /\ Return(w, FnFile(wl[w].slug, resSize[wl[w].rid]))
            /\ UNCHANGED <<resMu, progressCh>>
       ELSE /\ resMu' = [resMu EXCEPT ![wl[w].rid] = w]
            /\ progressCh' = Publish(wl[w].key, 1)
            /\ wpc' = [wpc EXCEPT ![w] = "prompt"]
            /\ wl' = [wl EXCEPT ![w].n = 1, ![w].links = links]
    /\ UNCHANGED <<workCh, wItem, poolHist, nextReq, rpc, rslug, rfn, rgen, resultCh,
                   cancelled, got, conc, pending, resInit, resources, resSize,
                   unsafe, outline, diskVars, fatal, histVars, sanVars>>

\* gemini.HTML / PNG: progress(parts[0].Text) for the next part of the stream,
\* in the worker's goroutine; the chunks of a generation are numbered as emitted
GenProgress(w) ==
    /\ ~fatal
    /\ wpc[w] = "model"
    /\ wl[w].n < MaxChunks
    /\ progressCh' = Publish(wl[w].key, wl[w].n + 1)
    /\ wl' = [wl EXCEPT ![w].n = @ + 1]
    /\ UNCHANGED <<workCh, wpc, wItem, poolHist, nextReq, rpc, rslug, rfn, rgen, resultCh,
                   cancelled, got, conc, pending, siteVars, diskVars, fatal, histVars, sanVars>>

\* what the model answers to the safety probe and the outline prompt
OutlineAnswers == {"error", "UNSAFE", "doc"}

\* defaultPrompter.GetPromptForSlug with initOutline and genOutline, and the
\* GenerateFunc's handling of its error
GenPrompt(w, a) ==
    /\ ~fatal
    /\ wpc[w] = "prompt"
    /\   LET known == outline # ""
             onDisk == outlineTxt # ""
             o == IF known THEN outline
                  ELSE IF onDisk THEN outlineTxt
                  ELSE IF a = "error" THEN "" ELSE a
             failed == ~known /\ ~onDisk /\ a = "error"
         IN  /\ (known \/ onDisk) => a = "doc"
             /\ outline' = o
             /\ outlineTxt' = IF ~known /\ ~onDisk /\ ~failed THEN o ELSE outlineTxt
             /\ IF failed
                THEN /\ Return(w, FnError(wl[w].slug))
                     /\ resMu' = Unlocked(wl[w].rid)
                     /\ unsafe' = unsafe
                ELSE IF o = "UNSAFE"
                THEN /\ Return(w, FnUnsafe)
                     /\ resMu' = Unlocked(wl[w].rid)
                     /\ unsafe' = TRUE
                ELSE /\ wpc' = [wpc EXCEPT ![w] = "model"]
                     /\ UNCHANGED <<wl, resMu, unsafe>>
    /\ UNCHANGED <<workCh, wItem, poolHist, reqVars, pending, resInit, resources, resSize,
                   files, tmps, linksTxt, fatal, histVars, sanVars>>

\* the positions at which a worker holds p.mu inside initOutline: in the safety
\* probe, in the outline call, in writeFileAtomic(outline.txt)
OutlineInit == {"safety", "outlineText", "outlineWrite"}

\* mutant: initOutline does not take p.mu
outlineMuUnguarded == TRUE

\* p.mu.Lock() returns: no goroutine is inside initOutline
outlineMuFree == \A x \in Workers : wpc[x] \notin OutlineInit

\* GetPromptForSlug from "if outline == unsafeOutline" on, with the outline o it
\* read, and the GenerateFunc's handling of ErrUnsafe
PromptDone(w, o) ==
    IF o = "UNSAFE"
    THEN /\ Return(w, FnUnsafe)
         /\ resMu' = Unlocked(wl[w].rid)
         /\ unsafe' = TRUE
    ELSE /\ wpc' = [wpc EXCEPT ![w] = "model"]
         /\ UNCHANGED <<wl, resMu, unsafe>>

\* GetPromptForSlug: p.mu.Lock(); outline := p.outline; p.mu.Unlock(), and the
\* call of initOutline when it is empty
PromptRead(w) ==
    /\ ~fatal
    /\ wpc[w] = "prompt"
    /\ outlineMuFree
    /\ IF outline = ""
       THEN /\ wpc' = [wpc EXCEPT ![w] = "initOutline"]
            /\ UNCHANGED <<wl, resMu, unsafe>>
       ELSE PromptDone(w, outline)
    /\ UNCHANGED <<workCh, wItem, poolHist, reqVars, pending, resInit, resources, resSize,
                   outline, diskVars, fatal, histVars, sanVars>>

\* initOutline: p.mu.Lock(); the second look at p.outline; p.root.Open(outline.txt)
\* and, when the file exists, io.ReadAll and p.outline = string(v); else
\* genOutline is entered with p.mu held
InitOutlineEnter(w) ==
    /\ ~fatal
    /\ wpc[w] = "initOutline"
    /\ outlineMuFree
    /\ IF outline # ""
       THEN /\ wpc' = [wpc EXCEPT ![w] = "reread"]
            /\ outline' = outline
       ELSE IF outlineTxt # ""
       THEN /\ wpc' = [wpc EXCEPT ![w] = "reread"]
            /\ outline' = outlineTxt
       ELSE /\ wpc' = [wpc EXCEPT ![w] = "safety"]
            /\ outline' = outline
    /\ UNCHANGED <<workCh, wItem, poolHist, reqVars, pending, resInit, resources, resSize,
                   resMu, unsafe, diskVars, wl, fatal, histVars, sanVars>>

\* what the model answers to the safety probe
SafetyAnswers == {"error", "SAFE", "NO"}

\* genOutline: p.gemini.Text(ctx, safetyPrompt, progress) returns; on an error
\* initOutline returns it (deferred p.mu.Unlock()) and the generation fails; on
\* an answer other than SAFE p.outline = unsafeOutline and genOutline returns
\* nil; else progress("\nGenerating outline...\n") and the outline call
GenOutlineSafety(w, a) ==
    /\ ~fatal
    /\ wpc[w] = "safety"
    /\ IF a = "error"
       THEN /\ Return(w, FnError(wl[w].slug))
            /\ resMu' = Unlocked(wl[w].rid)
            /\ UNCHANGED <<outline, progressCh>>
       ELSE IF a # "SAFE"
       THEN /\ outline' = "UNSAFE"
            /\ wpc' = [wpc EXCEPT ![w] = "outlineWrite"]
            /\ UNCHANGED <<wl, resMu, progressCh>>
       ELSE /\ progressCh' = Publish(wl[w].key, wl[w].n + 1)
            /\ wl' = [wl EXCEPT ![w].n = @ + 1]
            /\ wpc' = [wpc EXCEPT ![w] = "outlineText"]
            /\ UNCHANGED <<outline, resMu>>
    /\ UNCHANGED <<workCh, wItem, poolHist, nextReq, rpc, rslug, rfn, rgen, resultCh,
                   cancelled, got, conc, pending, resInit, resources, resSize, unsafe,
                   diskVars, fatal, histVars, sanVars>>

\* what the model answers to the outline prompt
OutlineTexts == {"error", "doc"}

\* genOutline: p.gemini.Text(ctx, outlinePrompt, progress) returns; on an error
\* the generation fails; else p.outline = outline and progress("\n")
GenOutlineText(w, a) ==
    /\ ~fatal
    /\ wpc[w] = "outlineText"
    /\ IF a = "error"
       THEN /\ Return(w, FnError(wl[w].slug))
            /\ resMu' = Unlocked(wl[w].rid)
            /\ UNCHANGED <<outline, progressCh>>
       ELSE /\ outline' = a
            /\ progressCh' = Publish(wl[w].key, wl[w].n + 1)
            /\ wl' = [wl EXCEPT ![w].n = @ + 1]
            /\ wpc' = [wpc EXCEPT ![w] = "outlineWrite"]
            /\ resMu' = resMu
    /\ UNCHANGED <<workCh, wItem, poolHist, nextReq, rpc, rslug, rfn, rgen, resultCh,
                   cancelled, got, conc, pending, resInit, resources, resSize, unsafe,
                   diskVars, fatal, histVars, sanVars>>

\* initOutline: writeFileAtomic(outline.txt, p.outline) returns, with the file
\* renamed into place or with an error; p.mu is released either way, and on
\* the error the generation fails
InitOutlineWrite(w, ok) ==
    /\ ~fatal
    /\ wpc[w] = "outlineWrite"
    /\ IF ok
       THEN /\ outlineTxt' = outline
            /\ wpc' = [wpc EXCEPT ![w] = "reread"]
            /\ UNCHANGED <<wl, resMu>>
       ELSE /\ outlineTxt' = outlineTxt
            /\ Return(w, FnError(wl[w].slug))
            /\ resMu' = Unlocked(wl[w].rid)
    /\ UNCHANGED <<workCh, wItem, poolHist, reqVars, pending, resInit, resources, resSize,
                   unsafe, outline, files, tmps, linksTxt, fatal, histVars, sanVars>>

\* GetPromptForSlug after initOutline returned nil: p.mu.Lock();
\* outline = p.outline; p.mu.Unlock(), and the rest of the function
PromptReread(w) ==
    /\ ~fatal
    /\ wpc[w] = "reread"
    /\ outlineMuFree
    /\ PromptDone(w, outline)
    /\ UNCHANGED <<workCh, wItem, poolHist, reqVars, pending, resInit, resources, resSize,
                   outline, diskVars, fatal, histVars, sanVars>>

\* a model call made with a context that is already done fails
CtxDone(ctx) == ctx # Background /\ ctx \in cancelled

\* what s.gemini.HTML / s.gemini.PNG return after their attempts: an error, or
\* the page with the URLs the sanitizer and the transformer collect from it, or
\* the image
ReplyError == [kind |-> "error", v |-> <<>>, urls |-> {}]
ReplyPanic == [kind |-> "panic", v |-> <<>>, urls |-> {}]
ModelReplies ==
    {ReplyError} \cup {[kind |-> "ok", v |-> v, urls |-> u] : v \in Outputs, u \in SUBSET LinkCands}

\* generate's switch on extensionForSlug(slug), which panics for a slug without
\* a valid extension, and generateHTML / generateJPG up to the model's reply;
\* when the GenerateFunc panics, its deferred r.mu.Unlock() runs and the deferred function of
\* Server.generate recovers: the result is the ErrGeneratePanic handler
GenModel(w, reply) ==
    /\ ~fatal
    /\ wpc[w] = "model"
    /\ IF reply.kind = "panic" \/ ~ValidSlug(wl[w].slug)
       THEN /\ Return(w, FnPanic(wl[w].slug))
            /\ resMu' = Unlocked(wl[w].rid)
       ELSE IF reply.kind = "error"
       THEN /\ Return(w, IF CtxDone(wl[w].ctx)
                         THEN [FnError(wl[w].slug) EXCEPT !.kind = "canceled"]
                         ELSE FnError(wl[w].slug))
            /\ resMu' = Unlocked(wl[w].rid)
       ELSE /\ ~CtxDone(wl[w].ctx)
            /\ IsHTML(wl[w].slug) \/ reply.urls = {}
            /\ wl' = [wl EXCEPT ![w].v = reply.v, ![w].urls = reply.urls]
            /\ wpc' = [wpc EXCEPT ![w] = "urls"]
            /\ resMu' = resMu
    /\ UNCHANGED <<workCh, wItem, poolHist, reqVars, pending, resInit, resources, resSize,
                   unsafe, outline, diskVars, fatal, histVars, sanVars>>

\* generateHTML: for u := range urls { _, ok := s.resources[u]; ... } -- the
\* read of the map, without s.mu; after the loop appendContents(links.txt) and,
\* in generate, the rejection of empty output
GenUrls(w) ==
    /\ ~fatal
    /\ wpc[w] = "urls"
    /\ IF wl[w].urls = {}
       THEN /\ linksTxt' = IF wl[w].sb = <<>> THEN linksTxt
                           ELSE IF linksTxt = <<>> THEN <<wl[w].sb>>
                           ELSE <<linksTxt[1] \o wl[w].sb>>
            /\ IF wl[w].v = <<>>
               THEN /\ Return(w, FnError(wl[w].slug))
                    /\ resMu' = Unlocked(wl[w].rid)
               ELSE /\ wpc' = [wpc EXCEPT ![w] = "open"]
                    /\ UNCHANGED <<wl, resMu>>
       ELSE /\ \E u \in wl[w].urls :
                 IF u \in DOMAIN resources
                 THEN /\ wl' = [wl EXCEPT ![w].urls = @ \ {u}]
                      /\ wpc' = wpc
                 ELSE /\ wl' = [wl EXCEPT ![w].cur = u]
                      /\ wpc' = [wpc EXCEPT ![w] = "insert"]
            /\ UNCHANGED <<linksTxt, resMu>>
    /\ UNCHANGED <<workCh, wItem, poolHist, reqVars, pending, resInit, resources, resSize,
                   unsafe, outline, files, tmps, outlineTxt, fatal, histVars, sanVars>>

\* generateHTML: appendContents(links.txt) returns an error (the open or the
\* write failed, nothing appended) and the generation fails
GenAppendFail(w) ==
    /\ ~fatal
    /\ wpc[w] = "urls"
    /\ wl[w].urls = {}
    /\ wl[w].sb # <<>>
    /\ Return(w, FnError(wl[w].slug))
    /\ resMu' = Unlocked(wl[w].rid)
    /\ UNCHANGED <<workCh, wItem, poolHist, reqVars, pending, resInit, resources, resSize,
                   unsafe, outline, diskVars, fatal, histVars, sanVars>>

\* generateHTML: sb.WriteString(u); s.resources[u] = &resource{0, sync.Mutex{}}
\* -- the write of the map, without s.mu
GenInsert(w) ==
    /\ ~fatal
    /\ wpc[w] = "insert"
    /\ resources' = Put(resources, wl[w].cur, Len(resSize) + 1)
    /\ resSize' = Append(resSize, 0)
    /\ resMu' = Append(resMu, 0)
    /\ wl' = [wl EXCEPT ![w].urls = @ \ {wl[w].cur}, ![w].sb = Append(@, wl[w].cur), ![w].cur = ""]
    /\ wpc' = [wpc EXCEPT ![w] = "urls"]
    /\ UNCHANGED <<workCh, wItem, poolHist, reqVars, pending, resInit,
                   unsafe, outline, diskVars, fatal, histVars, sanVars>>

(* ----------------------- write.go: writeFileAtomic ---------------------- *)

\* mutant: the bytes are written to {slug} itself
WriteInPlaceYes == TRUE

\* tmpSlug := slug + ".tmp": the bytes go to the temporary file
WriteInPlace == FALSE

\* root.OpenFile(tmpSlug, O_CREATE|O_WRONLY|O_TRUNC): the file exists and is empty
WOpen(w) ==
    /\ ~fatal
    /\ wpc[w] = "open"
    /\ IF WriteInPlace
       THEN files' = Put(files, wl[w].slug, <<>>) /\ tmps' = tmps
       ELSE tmps' = Put(tmps, wl[w].slug, <<>>) /\ files' = files
    /\ wpc' = [wpc EXCEPT ![w] = "write"]
    /\ UNCHANGED <<workCh, wItem, poolHist, reqVars, pending, siteVars, linksTxt, outlineTxt,
                   wl, fatal, histVars, sanVars>>

\* f.Write(v) writes n bytes: all of v, or a proper prefix of it and an error; f.Close().
\* On the error the GenerateFunc returns its "failed to write" HandleFunc.
WWrite(w, n) ==
    /\ ~fatal
    /\ wpc[w] = "write"
    /\ n \in 0..Len(wl[w].v)
    /\   LET data == SubSeq(wl[w].v, 1, n)
         IN  /\ IF WriteInPlace
                THEN files' = Put(files, wl[w].slug, data) /\ tmps' = tmps
                ELSE tmps' = Put(tmps, wl[w].slug, data) /\ files' = files
             /\ IF n = Len(wl[w].v)
                THEN /\ wpc' = [wpc EXCEPT ![w] = "rename"]
                     /\ UNCHANGED <<wl, resMu>>
                ELSE /\ Return(w, FnError(wl[w].slug))
                     /\ resMu' = Unlocked(wl[w].rid)
    /\ UNCHANGED <<workCh, wItem, poolHist, reqVars, pending, resInit, resources, resSize,
                   unsafe, outline, linksTxt, outlineTxt, fatal, histVars, sanVars>>

\* os.Rename(tmp, slug); back in the GenerateFunc: r.size = int64(len(v)) and
\* the return of the closure that serves v
WRename(w) ==
    /\ ~fatal
    /\ wpc[w] = "rename"
    /\ IF WriteInPlace
       THEN UNCHANGED <<files, tmps>>
       ELSE /\ files' = Put(files, wl[w].slug, tmps[wl[w].slug])
            /\ tmps' = Drop(tmps, wl[w].slug)
    /\ writes' = [writes EXCEPT ![wl[w].slug] = @ + 1]
    /\ complete' = [complete EXCEPT ![wl[w].slug] = @ \cup {wl[w].v}]
    /\ resSize' = [resSize EXCEPT ![wl[w].rid] = Len(wl[w].v)]
    /\ resMu' = Unlocked(wl[w].rid)
    /\ Return(w, FnBytes(wl[w].slug, wl[w].v, wl[w].rid))
    /\ UNCHANGED <<workCh, wItem, poolHist, reqVars, pending, resInit, resources,
                   unsafe, outline, linksTxt, outlineTxt, fatal, sanVars>>

(* ------------------ server.go: Server.generate, deferred ---------------- *)

\* mutant: every waiter is in the detached list twice
WaitersTwice(key) == IF key \in DOMAIN pending THEN pending[key] \o pending[key] ELSE <<>>

\* p := s.pending[slug]
Waiters(key) == IF key \in DOMAIN pending THEN pending[key] ELSE <<>>
InSeq(x, q) == \E n \in 1..Len(q) : q[n] = x

\* mutant: the entry is left in the map
deletePendingSkipped(key) == pending

\* delete(s.pending, slug)
deletePending(key) == Drop(pending, key)

RECURSIVE sendResults(_, _, _)
\* for _, pp := range p { if !trySend(pp.resultCh, v) { panic(...) } }: the
\* channels after the sends, or the failure of one
sendResults(p, chans, v) ==
    IF p = <<>> THEN [ok |-> TRUE, ch |-> chans]
    ELSE IF ~trySend(chans[Head(p)], ResultChannelLength, v).ok THEN [ok |-> FALSE, ch |-> chans]
    ELSE sendResults(Tail(p),
                     [chans EXCEPT ![Head(p)] = trySend(@, ResultChannelLength, v).ch], v)

\* the deferred function of Server.generate: detach pending[slug] under s.mu,
\* then trySend the final HandleFunc on every waiter's resultCh; a failed send
\* panics in the worker goroutine; else the worker is back at its receive, the
\* item and the generator's locals dead
GenDetach(w) ==
    /\ ~fatal
    /\ wpc[w] = "detach"
    /\ LET sent == sendResults(Waiters(wl[w].key), resultCh, wl[w].res)
       IN  /\ pending' = deletePending(wl[w].key)
           /\ fatal' = ~sent.ok
           /\ resultCh' = IF sent.ok THEN sent.ch ELSE resultCh
    /\ wl' = [wl EXCEPT ![w] = NoLocals]
    /\ wItem' = [wItem EXCEPT ![w] = <<>>]
    /\ wpc' = [wpc EXCEPT ![w] = "recv"]
    /\ UNCHANGED <<workCh, poolHist, nextReq, rpc, rslug, rfn, rgen, progressCh,
                   cancelled, got, conc, siteVars, diskVars, histVars, sanVars>>

Init == InitPool /\ \E d \in Disks : InitServer(d) /\ InitSanitizeIdle

Next ==
    \/ \E path \in RequestPaths : ReqHandle(path)
    \/ \E r \in Requests : ReqServe(r)
    \/ \E r \in Requests : ReqRegister(r)
    \/ \E r \in Requests : ReqProgress(r)
    \/ \E r \in Requests : ReqResult(r)
    \/ \E r \in Requests : ReqCancel(r)
    \/ \E w \in Workers : SrvReceive(w)
    \/ \E w \in Workers : GenGetResource(w)
    \/ \E w \in Workers : GenLock(w)
    \/ \E w \in Workers, a \in OutlineAnswers : GenPrompt(w, a)
    \/ \E w \in Workers, reply \in ModelReplies : GenModel(w, reply)
    \/ \E w \in Workers : GenUrls(w)
    \/ \E w \in Workers : GenInsert(w)
    \/ \E w \in Workers : WOpen(w)
    \/ \E w \in Workers, n \in 0..MaxLen : WWrite(w, n)
    \/ \E w \in Workers : WRename(w)
    \/ \E w \in Workers : GenDetach(w)

Spec == Init /\ [][Next]_vars

\* the scripted clients against a new site whose model answers every call with
\* a non-empty page that links to c.html (one fixed page for the index and the
\* not-found page, any page for c.html), and whose disk takes every write; no
\* client disconnects, and each reads its progress channel only with the result
RaceReplies(slug) ==
    {[kind |-> "ok", v |-> v, urls |-> LinkCands] :
        v \in IF slug \in LinkCands THEN Outputs \ {<<>>} ELSE {[k \in 1..1 |-> 1]}}

InitRace == InitPool /\ InitServer(DiskFresh) /\ InitSanitizeIdle

NextRace ==
    \/ ReqScripted
    \/ \E r \in Requests : ReqServe(r)
    \/ \E r \in Requests : ReqRegister(r)
    \/ \E r \in Requests : ReqResult(r)
    \/ \E w \in Workers : SrvReceive(w)
    \/ \E w \in Workers : GenGetResource(w)
    \/ \E w \in Workers : GenLock(w)
    \/ \E w \in Workers : GenPrompt(w, "doc")
    \/ \E w \in Workers : \E reply \in RaceReplies(wl[w].slug) : GenModel(w, reply)
    \/ \E w \in Workers : GenUrls(w)
    \/ \E w \in Workers : GenInsert(w)
    \/ \E w \in Workers : WOpen(w)
    \/ \E w \in Workers : WWrite(w, Len(wl[w].v))
    \/ \E w \in Workers : WRename(w)
    \/ \E w \in Workers : GenDetach(w)

SpecRace == InitRace /\ [][NextRace]_vars

\* the same clients when the model may also fail to answer for a linked page:
\* the reply is a one-byte page that links to LinkCands, or an error
FailReplies(slug) ==
    {[kind |-> "ok", v |-> [k \in 1..1 |-> 1], urls |-> LinkCands]}
    \cup (IF slug \in LinkCands THEN {ReplyError} ELSE {})

NextRaceFail ==
    \/ ReqScripted
    \/ \E r \in Requests : ReqServe(r)
    \/ \E r \in Requests : ReqRegister(r)
    \/ \E r \in Requests : ReqResult(r)
    \/ \E w \in Workers : SrvReceive(w)
    \/ \E w \in Workers : GenGetResource(w)
    \/ \E w \in Workers : GenLock(w)
    \/ \E w \in Workers : GenPrompt(w, "doc")
    \/ \E w \in Workers : \E reply \in FailReplies(wl[w].slug) : GenModel(w, reply)
    \/ \E w \in Workers : GenUrls(w)
    \/ \E w \in Workers : GenInsert(w)
    \/ \E w \in Workers : WOpen(w)
    \/ \E w \in Workers : WWrite(w, Len(wl[w].v))
    \/ \E w \in Workers : WRename(w)
    \/ \E w \in Workers : GenDetach(w)

SpecRaceFail == InitRace /\ [][NextRaceFail]_vars

\* any clients against the site whose outline.txt is missing: the safety probe
\* is asked again, by the first generation of this process
InitUnsafe == InitPool /\ InitServer(DiskNoOutline) /\ InitSanitizeIdle

SpecUnsafe == InitUnsafe /\ [][Next]_vars

\* any clients asking a new site for its index page, whose generation streams
\* up to MaxChunks chunks and ends with an error or a one-byte page
ProgressReplies == {ReplyError, [kind |-> "ok", v |-> [k \in 1..1 |-> 1], urls |-> {}]}

InitProgress == InitPool /\ InitServer(DiskFresh) /\ InitSanitizeIdle

NextProgress ==
    \/ ReqHandle(IndexSlug)
    \/ \E r \in Requests : ReqServe(r)
    \/ \E r \in Requests : ReqRegister(r)
    \/ \E r \in Requests : ReqProgress(r)
    \/ \E r \in Requests : ReqResult(r)
    \/ \E r \in Requests : ReqCancel(r)
    \/ \E w \in Workers : SrvReceive(w)
    \/ \E w \in Workers : GenGetResource(w)
    \/ \E w \in Workers : GenLock(w)
    \/ \E w \in Workers : GenPrompt(w, "doc")
    \/ \E w \in Workers : GenProgress(w)
    \/ \E w \in Workers, reply \in ProgressReplies : GenModel(w, reply)
    \/ \E w \in Workers : GenUrls(w)
    \/ \E w \in Workers : WOpen(w)
    \/ \E w \in Workers : WWrite(w, Len(wl[w].v))
    \/ \E w \in Workers : WRename(w)
    \/ \E w \in Workers : GenDetach(w)

SpecProgress == InitProgress /\ [][NextProgress]_vars

\* any clients, none disconnecting, asking a new site for its index page and
\* for the path data: ; the model answers with a one-byte page holding any of
\* the URLs, and an append to links.txt may fail
LinkPaths == {"index.html", "data:"}
LinkReplies ==
    {[kind |-> "ok", v |-> [k \in 1..1 |-> 1], urls |-> ExtractUrls(hrefs)] : hrefs \in SUBSET RawURLs}

InitLinks == InitPool /\ InitServer(DiskFresh) /\ InitSanitizeIdle

NextLinks ==
    \/ \E path \in LinkPaths : ReqHandle(path)
    \/ \E r \in Requests : ReqServe(r)
    \/ \E r \in Requests : ReqRegister(r)
    \/ \E r \in Requests : ReqResult(r)
    \/ \E w \in Workers : SrvReceive(w)
    \/ \E w \in Workers : GenGetResource(w)
    \/ \E w \in Workers : GenLock(w)
    \/ \E w \in Workers : GenPrompt(w, "doc")
    \/ \E w \in Workers, reply \in LinkReplies : GenModel(w, reply)
    \/ \E w \in Workers : GenUrls(w)
    \/ \E w \in Workers : GenAppendFail(w)
    \/ \E w \in Workers : GenInsert(w)
    \/ \E w \in Workers : WOpen(w)
    \/ \E w \in Workers : WWrite(w, Len(wl[w].v))
    \/ \E w \in Workers : WRename(w)
    \/ \E w \in Workers : GenDetach(w)

SpecLinks == InitLinks /\ [][NextLinks]_vars

\* any clients, none disconnecting, against a site whose GenerateFunc either
\* panics in the model call or returns a one-byte page or image without links
PanicReplies == {ReplyPanic, [kind |-> "ok", v |-> [k \in 1..1 |-> 1], urls |-> {}]}

InitPanic == InitPool /\ \E d \in Disks : InitServer(d) /\ InitSanitizeIdle

NextPanic ==
    \/ \E path \in RequestPaths : ReqHandle(path)
    \/ \E r \in Requests : ReqServe(r)
    \/ \E r \in Requests : ReqRegister(r)
    \/ \E r \in Requests : ReqProgress(r)
    \/ \E r \in Requests : ReqResult(r)
    \/ \E w \in Workers : SrvReceive(w)
    \/ \E w \in Workers : GenGetResource(w)
    \/ \E w \in Workers : GenLock(w)
    \/ \E w \in Workers : GenPrompt(w, "doc")
    \/ \E w \in Workers, reply \in PanicReplies : GenModel(w, reply)
    \/ \E w \in Workers : GenUrls(w)
    \/ \E w \in Workers : WOpen(w)
    \/ \E w \in Workers : WWrite(w, Len(wl[w].v))
    \/ \E w \in Workers : WRename(w)
    \/ \E w \in Workers : GenDetach(w)

SpecPanic == InitPanic /\ [][NextPanic]_vars

\* the overloading clients against a new site; the model answers every call
\* with an error or with a one-byte page without links, and the disk takes
\* every write; no client disconnects
OverloadReplies == {ReplyError, [kind |-> "ok", v |-> [k \in 1..1 |-> 1], urls |-> {}]}

InitOverload == InitPool /\ InitServer(DiskFresh) /\ InitSanitizeIdle

NextOverload ==
    \/ ReqOverload
    \/ \E r \in Requests : ReqServe(r)
    \/ \E r \in Requests : ReqRegister(r)
    \/ \E r \in Requests : ReqResult(r)
    \/ \E w \in Workers : SrvReceive(w)
    \/ \E w \in Workers : GenGetResource(w)
    \/ \E w \in Workers : GenLock(w)
    \/ \E w \in Workers : GenPrompt(w, "doc")
    \/ \E w \in Workers, reply \in OverloadReplies : GenModel(w, reply)
    \/ \E w \in Workers : GenUrls(w)
    \/ \E w \in Workers : WOpen(w)
    \/ \E w \in Workers : WWrite(w, Len(wl[w].v))
    \/ \E w \in Workers : WRename(w)
    \/ \E w \in Workers : GenDetach(w)

SpecOverload == InitOverload /\ [][NextOverload]_vars

\* one step of worker w under SpecOverload
OverloadWorker(w) ==
    \/ SrvReceive(w)
    \/ GenGetResource(w)
    \/ GenLock(w)
    \/ GenPrompt(w, "doc")
    \/ \E reply \in OverloadReplies : GenModel(w, reply)
    \/ GenUrls(w)
    \/ WOpen(w)
    \/ WWrite(w, Len(wl[w].v))
    \/ WRename(w)
    \/ GenDetach(w)

\* the generator terminates and the workers are scheduled fairly
SpecOverloadFair == SpecOverload /\ \A w \in Workers : WF_vars(OverloadWorker(w))

\* any clients, none disconnecting, against a new or a served site whose
\* prompter's steps are taken one by one; the model answers a page or image
\* call with an error or with one byte without links, and only the write of
\* outline.txt may fail
OutlineReplies == {ReplyError, [kind |-> "ok", v |-> [k \in 1..1 |-> 1], urls |-> {}]}

InitOutline == InitPool /\ \E d \in Disks : InitServer(d) /\ InitSanitizeIdle

NextOutline ==
    \/ \E path \in RequestPaths : ReqHandle(path)
    \/ \E r \in Requests : ReqServe(r)
    \/ \E r \in Requests : ReqRegister(r)
    \/ \E r \in Requests : ReqResult(r)
    \/ \E w \in Workers : SrvReceive(w)
    \/ \E w \in Workers : GenGetResource(w)
    \/ \E w \in Workers : GenLock(w)
    \/ \E w \in Workers : PromptRead(w)
    \/ \E w \in Workers : InitOutlineEnter(w)
    \/ \E w \in Workers, a \in SafetyAnswers : GenOutlineSafety(w, a)
    \/ \E w \in Workers, a \in OutlineTexts : GenOutlineText(w, a)
    \/ \E w \in Workers, ok \in BOOLEAN : InitOutlineWrite(w, ok)
    \/ \E w \in Workers : PromptReread(w)
    \/ \E w \in Workers, reply \in OutlineReplies : GenModel(w, reply)
    \/ \E w \in Workers : GenUrls(w)
    \/ \E w \in Workers : WOpen(w)
    \/ \E w \in Workers : WWrite(w, Len(wl[w].v))
    \/ \E w \in Workers : WRename(w)
    \/ \E w \in Workers : GenDetach(w)

SpecOutline == InitOutline /\ [][NextOutline]_vars

(* --------------------- main.go: createHTTPHandler ----------------------- *)

\* the handler of createHTTPHandler: mu.Lock() with the deferred mu.Unlock()
\* around s.Get().ServeHTTP(w, r); the one mutex of the process is held by a
\* request from before its Site.Handle until its handler has returned
HttpMuHeld == InFlight # {}
HttpHandle(path) == ~HttpMuHeld /\ ReqHandle(path)

InitHttp == InitPool /\ \E d \in Disks : InitServer(d) /\ InitSanitizeIdle

NextHttp ==
    \/ \E path \in RequestPaths : HttpHandle(path)
    \/ \E r \in Requests : ReqServe(r)
    \/ \E r \in Requests : ReqRegister(r)
    \/ \E r \in Requests : ReqProgress(r)
    \/ \E r \in Requests : ReqResult(r)
    \/ \E r \in Requests : ReqCancel(r)
    \/ \E w \in Workers : SrvReceive(w)
    \/ \E w \in Workers : GenGetResource(w)
    \/ \E w \in Workers : GenLock(w)
    \/ \E w \in Workers, a \in OutlineAnswers : GenPrompt(w, a)
    \/ \E w \in Workers, reply \in ModelReplies : GenModel(w, reply)
    \/ \E w \in Workers : GenUrls(w)
    \/ \E w \in Workers : GenInsert(w)
    \/ \E w \in Workers : WOpen(w)
    \/ \E w \in Workers, n \in 0..MaxLen : WWrite(w, n)
    \/ \E w \in Workers : WRename(w)
    \/ \E w \in Workers : GenDetach(w)

\* the server process: every request enters through createHTTPHandler
SpecHttp == InitHttp /\ [][NextHttp]_vars

(* ------------- the generator and its callbacks, lock by lock ------------- *)

\* The steps of a generation with every Lock and Unlock of the Server mutex
\* (Server.mu), the Site mutex (defaultSite.mu) and the outline lock
\* (defaultPrompter.mu) as a position of the worker; the Resource mutex is resMu.

\* the progress callback: between s.mu.Lock() and the deferred s.mu.Unlock()
InCallback == {"cbSend", "cbUnlock"}

\* initOutline between p.mu.Lock() and the deferred p.mu.Unlock(): in genOutline's
\* two model calls, in writeFileAtomic(outline.txt), and in the callbacks that
\* genOutline makes
InInitOutline == {"lkSafety", "lkOutlineText", "lkOutlineWrite"}

\* mutant: the callback returns without unlocking s.mu
HoldsServerMuLeaked(w) == wpc[w] \in InCallback \/ wl[w].n > 0

HoldsServerMu(w) == wpc[w] \in InCallback
HoldsSiteMu(w) == wpc[w] = "linksHeld"
HoldsOutlineMu(w) ==
    \/ wpc[w] \in InInitOutline
    \/ wpc[w] \in InCallback \cup {"cbLock"} /\ wl[w].after \in InInitOutline
HoldsResourceMu(w) == \E i \in 1..Len(resMu) : resMu[i] = w

ServerMuFree == \A x \in Workers : ~HoldsServerMu(x)
SiteMuFree == \A x \in Workers : ~HoldsSiteMu(x)
OutlineMuFree == \A x \in Workers : ~HoldsOutlineMu(x)

\* the clients: the index page, and a page that does not exist yet
LockScript == <<"index.html", "c.html">>

\* Server.Get: Site.Handle, whose getResource takes s.mu
LkHandle == SiteMuFree /\ nextReq < Len(LockScript) /\ Arrive(LockScript[nextReq + 1])

\* singleFlightGenerate: s.mu.Lock() ... (deferred) s.mu.Unlock(), DoWork's
\* trySend inside
LkRegister(r) == ServerMuFree /\ ReqRegister(r)

\* the GenerateFunc's getResource, under the Site mutex
LkGetResource(w) == SiteMuFree /\ GenGetResource(w)

\* progress(v) is called: the callback is entered, the worker goes on at
\* position after when it returns
Callback(w, after) ==
    /\ wpc' = [wpc EXCEPT ![w] = "cbLock"]
    /\ wl' = [wl EXCEPT ![w].after = after]

\* r.mu.Lock(); if r.size > 0 { return s.handleFile(slug, r.size) }; else
\* defaultSite.generate begins with progress("Generating ...")
LkResource(w) ==
    /\ ~fatal
    /\ wpc[w] = "lock"
    /\ resourceMuFree(wl[w].rid)
    /\ IF resSize[wl[w].rid] > 0
       THEN /\ Return(w, FnFile(wl[w].slug, resSize[wl[w].rid]))
            /\ resMu' = resMu
       ELSE /\ resMu' = [resMu EXCEPT ![wl[w].rid] = w]
            /\ Callback(w, "links")
    /\ UNCHANGED <<workCh, wItem, poolHist, reqVars, pending, resInit, resources, resSize,
                   unsafe, outline, diskVars, fatal, histVars, sanVars>>

\* the callback: s.mu.Lock()
LkCbLock(w) ==
    /\ ~fatal
    /\ wpc[w] = "cbLock"
    /\ ServerMuFree
    /\ wpc' = [wpc EXCEPT ![w] = "cbSend"]
    /\ UNCHANGED <<workCh, wItem, poolHist, reqVars, pending, siteVars, diskVars, wl, fatal,
                   histVars, sanVars>>

\* the callback: p := s.pending[slug]; for _, pp := range p { trySend(pp.progressCh, progress) }
LkCbSend(w) ==
    /\ ~fatal
    /\ wpc[w] = "cbSend"
    /\ progressCh' = Publish(wl[w].key, wl[w].n + 1)
    /\ wl' = [wl EXCEPT ![w].n = @ + 1]
    /\ wpc' = [wpc EXCEPT ![w] = "cbUnlock"]
    /\ UNCHANGED <<workCh, wItem, poolHist, nextReq, rpc, rslug, rfn, rgen, resultCh,
                   cancelled, got, conc, pending, siteVars, diskVars, fatal, histVars, sanVars>>

\* the callback returns: the deferred s.mu.Unlock()
LkCbUnlock(w) ==
    /\ ~fatal
    /\ wpc[w] = "cbUnlock"
    /\ wpc' = [wpc EXCEPT ![w] = wl[w].after]
    /\ wl' = [wl EXCEPT ![w].after = ""]
    /\ UNCHANGED <<workCh, wItem, poolHist, reqVars, pending, siteVars, diskVars, fatal,
                   histVars, sanVars>>

\* defaultSite.generate: s.mu.Lock()
LkLinksLock(w) ==
    /\ ~fatal
    /\ wpc[w] = "links"
    /\ SiteMuFree
    /\ wpc' = [wpc EXCEPT ![w] = "linksHeld"]
    /\ UNCHANGED <<workCh, wItem, poolHist, reqVars, pending, siteVars, diskVars, wl, fatal,
                   histVars, sanVars>>

\* links := s.links; s.mu.Unlock(); GetPromptForSlug is called next
LkLinksUnlock(w) ==
    /\ ~fatal
    /\ wpc[w] = "linksHeld"
    /\ wl' = [wl EXCEPT ![w].links = links]
    /\ wpc' = [wpc EXCEPT ![w] = "prompt"]
    /\ UNCHANGED <<workCh, wItem, poolHist, reqVars, pending, siteVars, diskVars, fatal,
                   histVars, sanVars>>

\* GetPromptForSlug: p.mu.Lock(); outline := p.outline; p.mu.Unlock(), and the
\* call of initOutline when it is empty
LkPromptRead(w) ==
    /\ ~fatal
    /\ wpc[w] = "prompt"
    /\ OutlineMuFree
    /\ IF outline = ""
       THEN /\ wpc' = [wpc EXCEPT ![w] = "lkInitOutline"]
            /\ UNCHANGED <<wl, resMu, unsafe>>
       ELSE PromptDone(w, outline)
    /\ UNCHANGED <<workCh, wItem, poolHist, reqVars, pending, resInit, resources, resSize,
                   outline, diskVars, fatal, histVars, sanVars>>

\* initOutline: p.mu.Lock(); the second look at p.outline; p.root.Open(outline.txt)
\* and, when the file exists, p.outline = string(v); else genOutline is entered
\* with p.mu held; GetPromptForSlug reads p.outline again after the return
LkInitOutline(w) ==
    /\ ~fatal
    /\ wpc[w] = "lkInitOutline"
    /\ OutlineMuFree
    /\ IF outline # ""
       THEN /\ wpc' = [wpc EXCEPT ![w] = "lkReread"]
            /\ outline' = outline
       ELSE IF outlineTxt # ""
       THEN /\ wpc' = [wpc EXCEPT ![w] = "lkReread"]
            /\ outline' = outlineTxt
       ELSE /\ wpc' = [wpc EXCEPT ![w] = "lkSafety"]
            /\ outline' = outline
    /\ UNCHANGED <<workCh, wItem, poolHist, reqVars, pending, resInit, resources, resSize,
                   resMu, unsafe, diskVars, wl, fatal, histVars, sanVars>>

\* genOutline: the safety probe returns (a model call made with p.mu held);
\* when the answer is SAFE, progress("\nGenerating outline...\n") with p.mu held
LkSafety(w, a) ==
    /\ ~fatal
    /\ wpc[w] = "lkSafety"
    /\ IF a = "error"
       THEN /\ Return(w, FnError(wl[w].slug))
            /\ resMu' = Unlocked(wl[w].rid)
            /\ outline' = outline
       ELSE IF a # "SAFE"
       THEN /\ outline' = "UNSAFE"
            /\ wpc' = [wpc EXCEPT ![w] = "lkOutlineWrite"]
            /\ UNCHANGED <<wl, resMu>>
       ELSE /\ Callback(w, "lkOutlineText")
            /\ UNCHANGED <<outline, resMu>>
    /\ UNCHANGED <<workCh, wItem, poolHist, reqVars, pending, resInit, resources, resSize,
                   unsafe, diskVars, fatal, histVars, sanVars>>

\* genOutline: the outline call returns; p.outline = outline; progress("\n")
LkOutlineText(w, a) ==
    /\ ~fatal
    /\ wpc[w] = "lkOutlineText"
    /\ IF a = "error"
       THEN /\ Return(w, FnError(wl[w].slug))
            /\ resMu' = Unlocked(wl[w].rid)
            /\ outline' = outline
       ELSE /\ outline' = a
            /\ Callback(w, "lkOutlineWrite")
            /\ resMu' = resMu
    /\ UNCHANGED <<workCh, wItem, poolHist, reqVars, pending, resInit, resources, resSize,
                   unsafe, diskVars, fatal, histVars, sanVars>>

\* initOutline: writeFileAtomic(outline.txt) returns; the deferred p.mu.Unlock()
LkOutlineWrite(w, ok) ==
    /\ ~fatal
    /\ wpc[w] = "lkOutlineWrite"
    /\ IF ok
       THEN /\ outlineTxt' = outline
            /\ wpc' = [wpc EXCEPT ![w] = "lkReread"]
            /\ UNCHANGED <<wl, resMu>>
       ELSE /\ outlineTxt' = outlineTxt
            /\ Return(w, FnError(wl[w].slug))
            /\ resMu' = Unlocked(wl[w].rid)
    /\ UNCHANGED <<workCh, wItem, poolHist, reqVars, pending, resInit, resources, resSize,
                   unsafe, outline, files, tmps, linksTxt, fatal, histVars, sanVars>>

\* GetPromptForSlug after initOutline: p.mu.Lock(); outline = p.outline; p.mu.Unlock()
LkReread(w) ==
    /\ ~fatal
    /\ wpc[w] = "lkReread"
    /\ OutlineMuFree
    /\ PromptDone(w, outline)
    /\ UNCHANGED <<workCh, wItem, poolHist, reqVars, pending, resInit, resources, resSize,
                   outline, diskVars, fatal, histVars, sanVars>>


\* gemini.HTML: progress(parts[0].Text) for the next part of the stream
LkChunk(w) ==
    /\ ~fatal
    /\ wpc[w] = "model"
    /\ wl[w].n < LockChunks
    /\ Callback(w, "model")
    /\ UNCHANGED <<workCh, wItem, poolHist, reqVars, pending, siteVars, diskVars, fatal,
                   histVars, sanVars>>

\* the deferred function of Server.generate: s.mu.Lock(); p := s.pending[slug];
\* delete(s.pending, slug); s.mu.Unlock()
LkDetach(w) ==
    /\ ~fatal
    /\ wpc[w] = "detach"
    /\ ServerMuFree
    /\ wl' = [wl EXCEPT ![w].p = Waiters(wl[w].key)]
    /\ pending' = deletePending(wl[w].key)
    /\ wpc' = [wpc EXCEPT ![w] = "send"]
    /\ UNCHANGED <<workCh, wItem, poolHist, reqVars, siteVars, diskVars, fatal, histVars,
                   sanVars>>

\* for _, pp := range p { if !trySend(pp.resultCh, v) { panic(...) } }, and the
\* worker is back at its receive
LkSend(w) ==
    /\ ~fatal
    /\ wpc[w] = "send"
    /\ LET sent == sendResults(wl[w].p, resultCh, wl[w].res)
       IN  /\ fatal' = ~sent.ok
           /\ resultCh' = IF sent.ok THEN sent.ch ELSE resultCh
    /\ wl' = [wl EXCEPT ![w] = NoLocals]
    /\ wItem' = [wItem EXCEPT ![w] = <<>>]
    /\ wpc' = [wpc EXCEPT ![w] = "recv"]
    /\ UNCHANGED <<workCh, poolHist, nextReq, rpc, rslug, rfn, rgen, progressCh,
                   cancelled, got, conc, pending, siteVars, diskVars, histVars, sanVars>>

\* one step of worker w
LkWorker(w) ==
    \/ SrvReceive(w)
    \/ LkGetResource(w)
    \/ LkResource(w)
    \/ LkCbLock(w)
    \/ LkCbSend(w)
    \/ LkCbUnlock(w)
    \/ LkLinksLock(w)
    \/ LkLinksUnlock(w)
    \/ LkPromptRead(w)
    \/ LkInitOutline(w)
    \/ \E a \in SafetyAnswers : LkSafety(w, a)
    \/ \E a \in OutlineTexts : LkOutlineText(w, a)
    \/ \E ok \in BOOLEAN : LkOutlineWrite(w, ok)
    \/ LkReread(w)
    \/ LkChunk(w)
    \/ \E reply \in ProgressReplies : GenModel(w, reply)
    \/ GenUrls(w)
    \/ WOpen(w)
    \/ WWrite(w, Len(wl[w].v))
    \/ WRename(w)
    \/ LkDetach(w)
    \/ LkSend(w)

\* one step of the handler of request r once Handle has returned (both
\* clients miss the cache: neither page exists when they ask)
LkRequest(r) ==
    \/ LkRegister(r)
    \/ ReqProgress(r)
    \/ ReqResult(r)

InitLocks == InitPool /\ InitServer(DiskFresh) /\ InitSanitizeIdle

NextLocks ==
    \/ LkHandle
    \/ \E r \in Requests : LkRequest(r)
    \/ \E r \in Requests : ReqCancel(r)
    \/ \E w \in Workers : LkWorker(w)

SpecLocks == InitLocks /\ [][NextLocks]_vars

\* the model calls and the file system calls return, every goroutine that can
\* run does run: the scheduler's fairness
SpecLocksFair ==
    /\ SpecLocks
    /\ \A w \in Workers : WF_vars(LkWorker(w))
    /\ WF_vars(\E r \in Requests : LkRequest(r))

(* ---------------------- sanitize/html.go, generateHTML ------------------ *)

RECURSIVE SeqsUpTo(_, _)
\* the sequences over S of length at most n
SeqsUpTo(S, n) ==
    IF n = 0 THEN {<<>>}
    ELSE LET shorter == SeqsUpTo(S, n - 1)
         IN  shorter \cup {Append(q, a) : q \in shorter, a \in S}


\* an element node of the parsed document: n.Data, n.Attr and the element
\* children in order; attribute values are strings in pieces. A node with
\* chain = c stands for c + 1 elements of that name, each the only child of the
\* one before, the last one with the children kids
El(tag, attrs, kids) == [tag |-> tag, attrs |-> attrs, kids |-> kids, chain |-> 0]
Chain(k, kids) == [tag |-> "div", attrs |-> <<>>, kids |-> kids, chain |-> k - 1]
At(key, val) == [key |-> key, val |-> val]

\* const maxDepth
maxDepth == 100

\* the attribute keys of the URL case of the switch, and strings.ToLower of the
\* keys of the model's documents
URLAttributes ==
    {"src", "href", "action", "data", "poster", "formaction", "cite", "background", "ping",
     "longdesc", "icon", "srcdoc", "xlink:href", "codebase", "classid", "archive", "usemap",
     "profile", "manifest"}
SrcsetAttributes == {"srcset", "imagesrcset"}
\* mutant: the keys are compared as they are written
keyAsWritten(k) == k
lowerKey(k) == IF k = "SRC" THEN "src" ELSE k

\* strings.TrimSpace, strings.Split(v, ","), strings.Fields and strings.Join
RECURSIVE TrimSpace(_)
TrimSpace(v) ==
    IF v # <<>> /\ Head(v) = " " THEN TrimSpace(Tail(v))
    ELSE IF v # <<>> /\ v[Len(v)] = " " THEN TrimSpace(Before(v, Len(v)))
    ELSE v
RECURSIVE Split(_, _)
Split(v, sep) ==
    IF IndexOf(v, sep) = 0 THEN <<v>>
    ELSE <<Before(v, IndexOf(v, sep))>> \o Split(From(v, IndexOf(v, sep) + 1), sep)
Fields(v) == SelectSeq(Split(v, " "), LAMBDA f : f # <<>>)
RECURSIVE Join(_, _)
Join(parts, sep) ==
    IF parts = <<>> THEN <<>>
    ELSE IF Len(parts) = 1 THEN parts[1]
    ELSE parts[1] \o sep \o Join(Tail(parts), sep)

RECURSIVE srcsetLoop(_, _)
\* sanitizeSrcset's loop over the parts: st holds out and urls
srcsetLoop(parts, st) ==
    IF parts = <<>> THEN st
    ELSE LET part == TrimSpace(Head(parts))
             fields == Fields(part)
             desc == IF Len(fields) > 1 THEN <<" ">> \o Join(Tail(fields), <<" ">>) ELSE <<>>
             vv == sanitizeURL(fields[1])
         IN  IF part = <<>> \/ fields = <<>>
             THEN srcsetLoop(Tail(parts), st)
             ELSE srcsetLoop(Tail(parts),
                             [out |-> Append(st.out, vv \o desc), urls |-> st.urls \cup {Str(vv)}])

\* sanitizeSrcset(v, urls, sanitizeURL): the new value and the urls map
sanitizeSrcset(v, urls) ==
    LET st == srcsetLoop(Split(v, ","), [out |-> <<>>, urls |-> urls])
    IN  [val |-> Join(st.out, <<",", " ">>), urls |-> st.urls]

\* one turn of the loop over n.Attr: the switch on strings.ToLower(n.Attr[i].Key)
\* gives the attribute's new value and the URLs it adds to the map; the
\* documents of the model have no style attribute and no style element
attrCase(at) ==
    LET k == lowerKey(at.key)
        v == sanitizeURL(at.val)
        ss == sanitizeSrcset(at.val, {})
    IN  IF k \in URLAttributes THEN [val |-> v, urls |-> {Str(v)}]
        ELSE IF k \in SrcsetAttributes THEN ss
        ELSE [val |-> at.val, urls |-> {}]

\* for i := range n.Attr
attrLoop(attrs, urls) ==
    [attrs |-> [i \in 1..Len(attrs) |-> [attrs[i] EXCEPT !.val = attrCase(attrs[i]).val]],
     urls |-> urls \cup UNION {attrCase(attrs[i]).urls : i \in 1..Len(attrs)}]

RECURSIVE walk(_, _, _)
\* HTMLSanitizeAndExtractUrls' walk(n, depth) with the urls map so far: the
\* error, the node as it is left, and the map. kidsLoop[i] is the loop
\* for c := n.FirstChild; c != nil; c = c.NextSibling after i children, stopped
\* by the first error
walk(n, depth, urls) ==
    LET a == attrLoop(n.attrs, urls)
        kidsLoop[i \in 0..Len(n.kids)] ==
            IF i = 0 THEN [err |-> FALSE, kids |-> n.kids, urls |-> a.urls]
            ELSE IF kidsLoop[i - 1].err THEN kidsLoop[i - 1]
            ELSE LET r == walk(n.kids[i], depth + n.chain + 1, kidsLoop[i - 1].urls)
                 IN  [err |-> r.err, kids |-> [kidsLoop[i - 1].kids EXCEPT ![i] = r.n],
                      urls |-> r.urls]
        c == kidsLoop[Len(n.kids)]
    IN  IF depth > maxDepth THEN [err |-> TRUE, n |-> n, urls |-> urls]
        ELSE IF depth + n.chain > maxDepth
        THEN [err |-> TRUE, n |-> [n EXCEPT !.attrs = a.attrs], urls |-> a.urls]
        ELSE [err |-> c.err, n |-> [n EXCEPT !.attrs = a.attrs, !.kids = c.kids],
              urls |-> c.urls]

\* HTMLSanitizeAndExtractUrls(doc, urls, sanitizeURL); the html element is at
\* depth 1, below the document node
HTMLSanitizeAndExtractUrls(doc, urls) == walk(doc, 1, urls)

RECURSIVE removeElements(_, _, _)
\* HTMLSanitizeElements' walk and removal for the children of a node at depth - 1:
\* a child whose name is in elementsToRemove goes with all it contains; the walk
\* does not go below maxDepth
removeElements(kids, depth, elementsToRemove) ==
    IF depth > maxDepth THEN kids
    ELSE LET kept == SelectSeq(kids, LAMBDA c : c.tag \notin elementsToRemove)
         IN  [i \in 1..Len(kept) |->
                [kept[i] EXCEPT !.kids =
                    removeElements(@, depth + kept[i].chain + 1, elementsToRemove)]]

\* HTMLSanitizeElements(doc, elementsToRemove), for a document whose html
\* element is not itself to be removed
HTMLSanitizeElements(doc, elementsToRemove) ==
    El(doc.tag, doc.attrs, removeElements(doc.kids, 2, elementsToRemove))

\* main.go, createDefaultTransformer: insertBannerIframe puts the banner iframe
\* and a spacer in front of the children of body, addSocialCardMeta appends the
\* meta elements to head, and the social card becomes a URL of the page
BannerIframe == El("iframe", <<At("src", <<"/", "banner", ".", "html">>)>>, <<>>)
Spacer == El("div", <<>>, <<>>)
SocialCardMeta == <<El("meta", <<At("property", <<"og:image">>)>>, <<>>)>>
SocialCardSlug == "colorful-social-card.jpg"
transformer(doc) ==
    El(doc.tag, doc.attrs,
       [i \in 1..Len(doc.kids) |->
          IF doc.kids[i].tag = "body"
          THEN El("body", doc.kids[i].attrs, <<BannerIframe, Spacer>> \o doc.kids[i].kids)
          ELSE IF doc.kids[i].tag = "head"
          THEN El("head", doc.kids[i].attrs, doc.kids[i].kids \o SocialCardMeta)
          ELSE doc.kids[i]])

RECURSIVE Render(_)
\* html.Render: the start tag with its attributes, the children, the end tag
Render(n) ==
    LET children[i \in 0..Len(n.kids)] ==
            IF i = 0 THEN <<>> ELSE children[i - 1] \o Render(n.kids[i])
    IN  [i \in 1..n.chain |-> "<" \o n.tag \o ">"]
        \o <<"<" \o n.tag>>
        \o [i \in 1..Len(n.attrs) |-> n.attrs[i].key \o "=" \o Str(n.attrs[i].val)]
        \o <<">">> \o children[Len(n.kids)]
        \o [i \in 1..n.chain + 1 |-> "</" \o n.tag \o ">"]

\* the documents gemini.HTML returns: html, head and body, and in the body, at
\* depth 3, or below a chain of divs at depth maxDepth or maxDepth + 1, one or
\* two elements: links and images with at most one attribute (a URL, a srcset, or
\* an attribute that is no URL), script elements, and a script inside a div
UrlVals == {<<"c">>, <<"p", ".", "png">>, <<"%zz">>}
SrcsetVals ==
    {<<"p", ".", "png">>,
     <<"p", ".", "png", " ", "2x">>,
     <<"c", " ", "1x", ",", " ", "C", ".", "png", " ", " ", "2x", " ", "w", ",">>}
AttrLists ==
    {<<>>, <<At("alt", <<"c">>)>>}
    \cup {<<At(k, v)>> : k \in {"href", "SRC"}, v \in UrlVals}
    \cup {<<At("srcset", v)>> : v \in SrcsetVals}
Script == El("script", <<>>, <<>>)
Elements ==
    {El(tag, attrs, <<>>) : tag \in {"a", "img"}, attrs \in AttrLists}
    \cup {Script, El("div", <<>>, <<Script>>)}
Nest(k, kids) == IF k = 0 THEN kids ELSE <<Chain(k, kids)>>
Docs ==
    {El("html", <<>>, <<El("head", <<>>, <<>>), El("body", <<>>, Nest(k, kids))>>) :
        k \in {0, maxDepth - 3, maxDepth - 2}, kids \in SeqsUpTo(Elements, 2) \ {<<>>}}

\* generateHTML has the parsed document of the model
InitSanitize ==
    /\ InitPool /\ InitServer(DiskFresh)
    /\ sanPc = "parsed"
    /\ sanArg \in Docs
    /\ sanRes = [err |-> FALSE, doc |-> sanArg, urls |-> {}, v |-> <<>>]

\* generateHTML: sanitize.HTMLSanitizeAndExtractUrls(doc, urls, sanitizeURL);
\* on its error the generation fails
GenSanitize ==
    /\ sanPc = "parsed"
    /\ LET r == HTMLSanitizeAndExtractUrls(sanArg, {})
       IN  /\ sanRes' = [err |-> r.err, doc |-> r.n, urls |-> r.urls, v |-> <<>>]
           /\ sanPc' = IF r.err THEN "failed" ELSE "sanitized"
    /\ UNCHANGED <<sanArg, poolVars, serverVars>>

\* generateHTML: s.transformer(doc, urls)
GenTransform ==
    /\ sanPc = "sanitized"
    /\ sanRes' = [sanRes EXCEPT !.doc = transformer(@), !.urls = @ \cup {SocialCardSlug}]
    /\ sanPc' = "transformed"
    /\ UNCHANGED <<sanArg, poolVars, serverVars>>

\* generateHTML: html.Render(&buf, doc); v is what the GenerateFunc writes to
\* the file and serves
GenRender ==
    /\ sanPc = "transformed"
    /\ sanRes' = [sanRes EXCEPT !.v = Render(sanRes.doc)]
    /\ sanPc' = "rendered"
    /\ UNCHANGED <<sanArg, poolVars, serverVars>>

NextSanitize == GenSanitize \/ GenTransform \/ GenRender

SpecSanitize == InitSanitize /\ [][NextSanitize]_vars

(* ------------------------ sanitizeURL, called twice --------------------- *)

\* the pieces the URLs are made of
UrlAtoms == {"c", "C", "png", "css", ".", "/", "?", ":", "-", "%20", "%zz"}

\* the URLs: every string of at most MaxUrlLen pieces that has no "//" (no
\* authority part)
UrlInputs ==
    {v \in SeqsUpTo(UrlAtoms, MaxUrlLen) :
        \A i \in 1..(Len(v) - 1) : ~(v[i] = "/" /\ v[i + 1] = "/")}

InitSanitizeURL ==
    /\ InitPool /\ InitServer(DiskFresh)
    /\ sanPc = "sanitizeURL"
    /\ sanArg \in UrlInputs
    /\ sanRes = <<>>

\* sanitizeURL is called on the URL, and once more on what it returned
SanitizeURLCall ==
    /\ sanPc = "sanitizeURL"
    /\ Len(sanRes) < 2
    /\ sanRes' = Append(sanRes, sanitizeURL(IF sanRes = <<>> THEN sanArg ELSE sanRes[Len(sanRes)]))
    /\ UNCHANGED <<sanPc, sanArg, poolVars, serverVars>>

NextSanitizeURL == SanitizeURLCall

SpecSanitizeURL == InitSanitizeURL /\ [][NextSanitizeURL]_vars

NextPool ==
    \/ DoWork
    \/ \E w \in Workers : WorkerRecv(w)
    \/ \E w \in Workers : WorkerExit(w)
    \/ \E w \in Workers : WorkerCall(w)
    \/ \E w \in Workers : WorkerReturn(w)
    \/ CloseChannel
    \/ CloseReturn

\* the pool of a Server that receives no request
InitPoolAlone == InitPool /\ InitServer(DiskFresh) /\ InitSanitizeIdle

SpecPool == InitPoolAlone /\ [][NextPool]_vars

\* Goroutines are scheduled fairly and do() terminates.
SpecPoolFair == SpecPool /\ \A w \in Workers : WF_vars(WorkerStep(w))

(* ------------------------- worker pool: claims -------------------------- *)

Accepted == {i \in Items : ret[i] = "true"}
IsPrefix(s, t) == Len(s) <= Len(t) /\ s = SubSeq(t, 1, Len(s))

\* the DoWork call of item i happens in this step
Submits(i) == ret[i] = "none" /\ ret'[i] # "none"

C3_Step ==
    \A i \in Items : Submits(i) =>
        /\ (ret'[i] = "true") <=> (workCh' = Append(workCh, i))
        /\ (ret'[i] = "false") => (Len(workCh) = WorkChannelCapacity /\ workCh' = workCh)
        /\ (Len(workCh) = WorkChannelCapacity /\ ~chClosed) => ret'[i] = "false"

\* C3: DoWork never blocks (a call is possible in every state and is one step);
\* it returns true exactly when the item was appended to the queue; it returns
\* false only when the queue holds WorkChannelCapacity items, and does so
\* whenever the open pool's queue is full; the queue is then unchanged and do()
\* is never called for the rejected item.
C3_DoWorkNonBlocking ==
    /\ [][C3_Step]_vars
    /\ [](nextItem < MaxItems => ENABLED DoWork)
    /\ [](\A i \in Items : ret[i] # "true" => doCount[i] = 0)

C3_Witness ==
    \E i, j \in Items : ret[i] = "true" /\ ret[j] = "false" /\ i < j /\ doDone[i]

\* C4: under worker fairness every item whose DoWork returned true has its do()
\* called, and no item's do() is ever called twice or called without having
\* been accepted.
C4_ExactlyOnce ==
    /\ [](\A i \in Items : doCount[i] <= 1 /\ (doCount[i] = 1 => ret[i] = "true"))
    /\ \A i \in Items : (ret[i] = "true") ~> (doCount[i] = 1 /\ doDone[i])

C4_Witness ==
    \E i, j \in Items : i # j /\ doCount[i] = 1 /\ doCount[j] = 1 /\ doDone[i] /\ doDone[j]
                         /\ \E w1, w2 \in Workers : w1 # w2 /\ wItem[w1] = <<i>> /\ wItem[w2] = <<j>>

\* C5: when Close has returned the queue is empty, every worker has exited, no
\* do() is running and do() has returned for every accepted item.
C5_CloseDrains ==
    closePc = "returned" =>
        /\ workCh = <<>>
        /\ \A w \in Workers : wpc[w] = "exited"
        /\ \A i \in Items : ret[i] = "true" => (doCount[i] = 1 /\ doDone[i])

C5_Witness ==
    closePc = "returned" /\ Cardinality(Accepted) >= WorkChannelCapacity + 1

\* C6 as stated: while nothing has completed at most WorkChannelCapacity items
\* are accepted, and the first submission after a completion succeeds.
C6_Original ==
    /\ []((\A i \in Items : ~doDone[i]) => Cardinality(Accepted) <= WorkChannelCapacity)
    /\ [][\A i \in Items : (Submits(i) /\ "returned" \in sinceSubmit /\ ~chClosed)
                                => ret'[i] = "true"]_vars

C6_Step ==
    \A i \in Items : (Submits(i) /\ ~chClosed) =>
        /\ Cardinality(Accepted) < WorkChannelCapacity => ret'[i] = "true"
        /\ (Cardinality(Accepted) >= WorkChannelCapacity /\ recvOrder = <<>>) => ret'[i] = "false"
        /\ "received" \in sinceSubmit => ret'[i] = "true"

\* C6 amended: an open pool accepts the first WorkChannelCapacity submissions;
\* as long as no worker has received an item it rejects every further one;
\* the first submission after a worker received an item succeeds; at most
\* WorkChannelCapacity + NumWorkers accepted items are unfinished.
C6_Amended ==
    /\ [][C6_Step]_vars
    /\ [](Cardinality({i \in Accepted : ~doDone[i]}) <= WorkChannelCapacity + NumWorkers)

C6_Witness ==
    /\ Cardinality(Accepted) = WorkChannelCapacity + 1
    /\ \E j \in Items : ret[j] = "false" /\ \E i \in Accepted : i > j
    /\ \A i \in Items : ~doDone[i]

\* C7 as stated: do() starts in acceptance order.
C7_Original == IsPrefix(startOrder, acceptOrder)

\* C7 amended: workers receive the accepted items in acceptance order; the
\* order in which the do() calls start or finish is not constrained.
C7_FifoReceive ==
    /\ IsPrefix(recvOrder, acceptOrder)
    /\ \A k \in 1..Len(startOrder) : \E n \in 1..Len(recvOrder) : recvOrder[n] = startOrder[k]

C7_Witness ==
    /\ Len(recvOrder) >= 2
    /\ Len(startOrder) >= 2
    /\ ~IsPrefix(startOrder, acceptOrder)


(* ------------------------- claims: the Server --------------------------- *)

\* the request missed the cache and its client received a response
Answered(r) ==
    /\ rgen[r] # ""
    /\ got[r].kind \in {"served", "sizeError", "openError", "unsafe", "error500"}

\* C1: requests for the same slug that miss the cache while one of them still
\* waits for its result are answered by one generation: the slug's artifact is
\* written once and they receive the same bytes or an error of the same kind.
C1_SingleFlight ==
    \A r1, r2 \in Requests :
        (/\ r1 \in conc[r2]
         /\ rslug[r1] = rslug[r2] /\ rgen[r1] = rgen[r2]
         /\ Answered(r1) /\ Answered(r2))
        => /\ got[r1].kind = got[r2].kind
           /\ got[r1].body = got[r2].body
           /\ writes[rgen[r1]] <= 1

\* C2: in one process the artifact file of a slug is written at most once.
C2_WrittenOnce == \A s \in Slugs : writes[s] <= 1

\* the result has been sent on the request's resultCh and not been taken
Delivered(r) == resultCh[r] # <<>>

\* the request is a waiter of the pending entry of its path
Registered(r) == InSeq(r, Waiters(rslug[r]))

\* the final HandleFuncs the workers hold or have sent
FinalFuncs ==
    {wl[w].res : w \in Workers} \cup {Head(resultCh[r]) : r \in {q \in Requests : Delivered(q)}}

\* C8: a cancelled request never aborts the generator: no send of a result
\* fails, no generator ends with a cancellation error, every waiter, cancelled
\* or still waiting, stays registered until the final HandleFunc is in its
\* result channel, and a final HandleFunc that serves generated bytes has its
\* artifact on disk.
C8_CancelHarmless ==
    /\ ~fatal
    /\ \A f \in FinalFuncs : f.kind # "canceled"
    /\ \A r \in Requests : (r \in cancelled \/ rpc[r] \in Waiting) => (Registered(r) \/ Delivered(r))
    /\ \A f \in FinalFuncs : f.kind = "bytes" => (f.slug \in DOMAIN files /\ files[f.slug] = f.v)

\* the first waiter of a generation disconnected before any result was sent;
\* the generator went on, the page is on disk, the result lies in the cancelled
\* waiter's channel and the second waiter has been served the page
C8_Witness ==
    \E r1, r2 \in Requests :
        /\ r1 \in cancelled /\ got[r1].kind = "abandoned"
        /\ r1 \in conc[r2] /\ rslug[r1] = rslug[r2]
        /\ Delivered(r1) /\ Head(resultCh[r1]).kind = "bytes"
        /\ got[r2].kind = "served" /\ got[r2].body = Head(resultCh[r1]).v
        /\ files[got[r2].slug] = got[r2].body

\* C9: every file {S} on disk holds the complete bytes of a completed
\* writeFileAtomic call (or what an earlier process left), and every body read
\* from a file is such complete bytes.
C9_NoPartialBytes ==
    /\ \A s \in DOMAIN files : files[s] \in complete[s]
    /\ \A r \in Requests :
         (rfn[r].kind = "file" /\ got[r].kind \in {"served", "sizeError"})
            => got[r].body \in complete[got[r].slug]

\* a cache hit read {S} while a writeFileAtomic of {S} was between its open
\* and its rename, and received complete bytes
C9_Witness ==
    \E r \in Requests :
        /\ rfn[r].kind = "file"
        /\ got[r].kind \in {"served", "sizeError"}
        /\ got[r].inWrite
        /\ got[r].body \in complete[got[r].slug]

\* C10: when a ServeFunc of a materialized slug has run, the Content-Length it
\* sent (the Resource.size it was built from) was the length of the file
\* {slug} at that moment.
C10_SizeIsFileLength ==
    \A r \in Requests :
        got[r].kind \in {"served", "sizeError"} => got[r].cl = got[r].flen

(* ----------------------- site and prompter: claims ---------------------- *)

\* the request that arrives in this step (Server.Get calls Site.Handle)
Arrives(r) == nextReq = r - 1 /\ nextReq' = r

\* C11: the unsafe flag of the site is never cleared once it is set, and every
\* Handle called while it is set, for any slug, also one whose file is on disk,
\* returns Unsafe: the request is answered by the unsafe handler, gets no
\* ServeFunc and no GenerateFunc.
C11_UnsafeSticky ==
    [][/\ unsafe => unsafe'
       /\ \A r \in Requests : (unsafe /\ Arrives(r)) =>
              /\ got'[r].kind = "unsafeHandler"
              /\ rfn'[r] = FnNone
              /\ rgen'[r] = ""]_vars

\* the flag is set, and a request for a page that is on disk with its size was
\* answered by the unsafe handler
C11_Witness ==
    /\ unsafe
    /\ \E r \in Requests :
          /\ got[r].kind = "unsafeHandler"
          /\ rslug[r] \in DOMAIN files
          /\ resInit /\ rslug[r] \in DOMAIN resources
          /\ resSize[resources[rslug[r]]] > 0

\* C12: when the safety probe answered something other than SAFE, the outline
\* in memory is the UNSAFE sentinel and nothing was persisted: the directory,
\* which had no outline.txt when the probe was asked, still has none.
C12_NothingPersisted == outline = "UNSAFE" => outlineTxt = ""

\* C13: while a request waits for its generation (the model call of its slug
\* is in flight), no lock keeps a further request from being admitted: a
\* client's next request can enter Site.Handle, for any path.
C13_NoLockAcrossGeneration ==
    \A r \in Requests :
        (rpc[r] \in Waiting /\ nextReq < MaxRequests /\ ~fatal)
            => \A path \in RequestPaths : ENABLED HttpHandle(path)

\* what the process does instead: at most one request is past mu.Lock()
C13_OneRequestAtATime == Cardinality(InFlight) <= 1

(* ------------------------ single flight: claims ------------------------- *)

\* a work item of this pending key is queued or held by a worker
HasWorker(key) ==
    \/ \E n \in 1..Len(workCh) : workCh[n].key = key
    \/ \E w \in Workers : wItem[w] # <<>> /\ Item(w).key = key

\* request r leaves singleFlightGenerate in this step
Registers(r) == rpc[r] = "register" /\ rpc'[r] # "register"

\* C14: a first waiter whose submission the pool rejects (the queue is full)
\* leaves no pending entry for its slug behind and fails with
\* WorkerPoolOverCapacity, nothing being queued; every pending list has a work
\* item, queued or held by a worker, so no waiter is attached to a list without
\* one; and a request that finds no entry for its slug is a first waiter: with
\* room in the queue it becomes the only member of a new list and its item is
\* queued.
C14_OverCapacity ==
    /\ [](\A key \in DOMAIN pending : HasWorker(key))
    /\ [][\A r \in Requests : Registers(r) =>
            /\ got'[r].kind = "overCapacity" <=>
                  (rslug[r] \notin DOMAIN pending /\ Len(workCh) = WorkChannelCapacity)
            /\ got'[r].kind = "overCapacity" =>
                  /\ rslug[r] \notin DOMAIN pending'
                  /\ pending' = pending
                  /\ workCh' = workCh
                  /\ rpc'[r] = "done"
            /\ (rslug[r] \notin DOMAIN pending /\ Len(workCh) < WorkChannelCapacity) =>
                  /\ pending' = Put(pending, rslug[r], <<r>>)
                  /\ Len(workCh') = Len(workCh) + 1
                  /\ workCh'[Len(workCh')].key = rslug[r]
                  /\ rpc'[r] \in Waiting]_vars

\* a request was rejected for over-capacity and a later request for the same
\* slug is the first waiter of a new list, its item submitted
C14_Witness ==
    \E r1, r2 \in Requests :
        /\ r1 < r2
        /\ rslug[r1] = rslug[r2]
        /\ got[r1].kind = "overCapacity"
        /\ rpc[r2] \in Waiting
        /\ rslug[r2] \in DOMAIN pending
        /\ pending[rslug[r2]] = <<r2>>
        /\ HasWorker(rslug[r2])

(* ------------------------ response status: claims ---------------------- *)

\* request r missed the cache, registered as a waiter and has run the final
\* ServeFunc it was sent
MissAnswered(r) ==
    /\ rgen[r] # ""
    /\ rpc[r] = "done"
    /\ got[r].kind \in {"served", "sizeError", "openError", "unsafe", "error500"}

Finishes(r, pc) == rpc[r] = pc /\ rpc'[r] = "done" /\ resultCh'[r] # resultCh[r]

DetachesPanic(w) == wpc[w] = "detach" /\ wpc'[w] = "recv" /\ wl[w].res.kind = "panic"

\* what holds of a panicking GenerateFunc: the panic stays in the worker (the
\* process goes on), the pending entry of the slug is removed, every waiter in
\* it is sent the GeneratePanic handler, and the worker is back at its receive
C15_Recovered ==
    /\ []~fatal
    /\ [][\A w \in Workers : DetachesPanic(w) =>
            /\ wl[w].key \notin DOMAIN pending'
            /\ \A r \in Requests : InSeq(r, Waiters(wl[w].key)) =>
                   resultCh'[r] = Append(resultCh[r], FnPanic(wl[w].slug))]_vars

\* C15: a panic of the GenerateFunc does not escape the worker, the pending
\* entry is removed, the worker goes on, and every waiter of the slug that
\* runs the result gets HTTP 500 with the GeneratePanic message.
C15_PanicIs500 ==
    /\ ~fatal
    /\ \A w \in Workers : wItem[w] = <<>> => wpc[w] = "recv"
    /\ \A r \in Requests :
          got[r].kind = "generatePanic" => got[r].status = StatusInternalServerError

(* ---------------------------- slugs: claims ----------------------------- *)

\* the lines of links.txt
JournalLines == IF linksTxt = <<>> THEN {} ELSE {linksTxt[1][n] : n \in 1..Len(linksTxt[1])}

\* C17: every key of resources and every line of links.txt ends in .html or
\* .jpg (the data: sentinel of sanitizeURL never becomes a known slug), and no
\* handler and no generation panics with InvalidSlug.
C17_ValidSlugs ==
    /\ \A k \in DOMAIN resources : ValidSlug(k)
    /\ \A line \in JournalLines : ValidSlug(line)
    /\ \A r \in Requests : got[r].kind \notin {"invalidSlugPanic", "generatePanic"}

\* the part of C17 about the request's goroutine alone: no handler panics with
\* InvalidSlug
C17_NoHandlerPanic == \A r \in Requests : got[r].kind # "invalidSlugPanic"

\* no generation is queued or running
Quiescent == workCh = <<>> /\ \A w \in Workers : wpc[w] = "recv"

\* C18: at every quiescent state every key of resources other than the two
\* reserved slugs has a line in links.txt (every URL a generation collected
\* was journaled when it became known).
C18_Journaled ==
    Quiescent => \A k \in DOMAIN resources \ {IndexSlug, NotFoundSlug} : k \in JournalLines

(* --------------------------- progress: claims -------------------------- *)

\* request r runs the final ServeFunc in this step
TakesFinal(r) == rpc[r] \in Waiting /\ rpc'[r] = "done" /\ resultCh'[r] # resultCh[r]

\* the final ServeFunc of request r has been sent
FinalSent(r) == resultCh[r] # <<>> \/ MissAnswered(r)

\* a chunk is sent to request r in this step
ChunkSent(r) == Len(progressCh'[r]) > Len(progressCh[r])

\* C19 as stated: no waiter handles the final ServeFunc while a chunk that was
\* sent to it is still undelivered, and no chunk is sent to a waiter after its
\* final ServeFunc.
C19_Original ==
    [][\A r \in Requests :
        /\ TakesFinal(r) => progressCh[r] = <<>>
        /\ FinalSent(r) => ~ChunkSent(r)]_vars

\* C19 amended: the final ServeFunc is sent to a waiter after all its progress
\* chunks: once it has been sent, no chunk is sent to that waiter any more, and
\* it is sent once; the waiter may handle it while chunks sent before it are
\* still in its progress channel, and those are then never delivered.
C19_Amended ==
    [][\A r \in Requests :
        /\ FinalSent(r) => ~ChunkSent(r)
        /\ FinalSent(r) => Len(resultCh'[r]) <= Len(resultCh[r])
        /\ TakesFinal(r) => got'[r].chunks = got[r].chunks]_vars

\* a waiter has been sent chunks and then the final ServeFunc, and has taken
\* neither yet
C19_Witness ==
    \E r \in Requests :
        /\ rpc[r] \in {"wait0", "wait1"}
        /\ resultCh[r] # <<>>
        /\ Len(progressCh[r]) >= 2

\* the chunk the generator of key emits in this step, 0 when it emits none
Emits(w, key) == wl[w].key = key /\ wl'[w].key = key /\ wl'[w].n = wl[w].n + 1
Emitted(key) ==
    IF \E w \in Workers : Emits(w, key)
    THEN wl'[CHOOSE w \in Workers : Emits(w, key)].n
    ELSE 0

\* the chunks request r has received and those waiting in its channel, in
\* the order sent, are increasing: emitted in this order, none twice
InOrder(r) ==
    LET q == got[r].chunks \o progressCh[r]
    IN  \A i, j \in 1..Len(q) : i < j => q[i] < q[j]

\* what a step does to request r's chunks: nothing; or the chunk emitted in
\* this step is sent to it, r being registered, and is buffered unless its
\* channel is full; or r receives the oldest buffered chunk
ChunkStep(r) ==
    \/ /\ progressCh'[r] = progressCh[r]
       /\ got'[r].chunks = got[r].chunks
       /\ (Emitted(rslug[r]) # 0 /\ r \in Subscribers(rslug[r]))
             => Len(progressCh[r]) = ProgressChannelLength
    \/ /\ Emitted(rslug[r]) # 0
       /\ r \in Subscribers(rslug[r])
       /\ Len(progressCh[r]) < ProgressChannelLength
       /\ progressCh'[r] = Append(progressCh[r], Emitted(rslug[r]))
       /\ got'[r].chunks = got[r].chunks
    \/ /\ progressCh[r] # <<>>
       /\ progressCh'[r] = Tail(progressCh[r])
       /\ got'[r].chunks = Append(got[r].chunks, Head(progressCh[r]))

\* C20 as stated: the chunks a waiter receives are, in order and without
\* duplicates, the chunks emitted after it registered, and a chunk is lost to
\* it only when its channel (capacity 4) is full at the send.
C20_Original ==
    /\ [](\A r \in Requests : InOrder(r))
    /\ [][\A r \in Requests : ChunkStep(r)]_vars

\* C20 amended: the chunks a waiter receives are, in order and without
\* duplicates, chunks emitted after it registered; a chunk is lost to it when
\* its channel (capacity 4) is full at the send, or when it is still in the
\* channel at the moment the waiter takes the final ServeFunc (a waiter that
\* has gone away receives nothing more).
C20_Amended ==
    /\ [](\A r \in Requests : InOrder(r))
    /\ [][\A r \in Requests :
            \/ ChunkStep(r)
            \/ /\ TakesFinal(r)
               /\ progressCh'[r] = <<>>
               /\ got'[r].chunks = got[r].chunks]_vars

\* a chunk was dropped at a full channel: the waiter was registered before the
\* first chunk and has received none, its channel holds four, and the
\* generator of its slug has emitted a fifth
C20_Witness ==
    \E r \in Requests, w \in Workers :
        /\ rpc[r] \in {"wait0", "wait1"}
        /\ r \in Subscribers(wl[w].key)
        /\ Len(progressCh[r]) = ProgressChannelLength
        /\ got[r].chunks = <<>>
        /\ wl[w].n > Len(progressCh[r])

(* --------------------------- outline: claims ---------------------------- *)

\* the workers inside an outline initialization (safety probe, outline call
\* or the write of outline.txt), p.mu held
Initializing == {w \in Workers : wpc[w] \in OutlineInit}

\* C21: at most one outline initialization is in progress at any time; a
\* caller that arrives at the outline lock while one is in progress does not
\* get past it; once the outline in memory is non-empty it is never changed, no
\* safety probe or outline call is made any more, and outline.txt is written
\* at most in the initialization that set the outline, with that outline.
C21_OneOutline ==
    /\ [](Cardinality(Initializing) <= 1)
    /\ [](outline # "" => \A w \in Workers : wpc[w] \notin {"safety", "outlineText"})
    /\ [][/\ \A w \in Workers :
               (Initializing \ {w} # {} /\ wpc[w] \in {"prompt", "initOutline", "reread"})
                   => wpc'[w] = wpc[w]
          /\ outline # "" => outline' = outline
          /\ \A w \in Workers :
               (wpc'[w] = "outlineWrite" /\ wpc[w] # "outlineWrite") => outline = ""
          /\ outlineTxt' # outlineTxt =>
               (outlineTxt' = outline /\ \E w \in Workers : wpc[w] = "outlineWrite")]_vars

\* one worker is in the outline call while the other waits at the outline
\* lock, on a site without outline.txt
C21_Witness ==
    \E w1, w2 \in Workers :
        /\ wpc[w1] = "outlineText"
        /\ wpc[w2] = "initOutline"
        /\ outline = "" /\ outlineTxt = ""

(* -------------------------- sanitizer: claims --------------------------- *)

\* C24: sanitizeURL applied to a result of sanitizeURL that is not the data:
\* sentinel returns that result again.
C24_Idempotent ==
    (sanPc = "sanitizeURL" /\ Len(sanRes) = 2 /\ Str(sanRes[1]) # DataSentinel)
        => Str(sanRes[2]) = Str(sanRes[1])

\* an upper-case path with an image extension and a query was mapped to a .jpg
\* slug, and so was that slug
C24_Witness ==
    /\ sanPc = "sanitizeURL"
    /\ Len(sanRes) = 2
    /\ \E i \in 1..Len(sanArg) : sanArg[i] \in UpperRuns
    /\ IndexOf(sanArg, "?") > 1
    /\ sanRes[1] # sanArg
    /\ From(sanRes[1], Len(sanRes[1]) - 1) = extJPG
    /\ sanRes[2] = sanRes[1]

(* --------------------------- sanitize: claims --------------------------- *)

RECURSIVE HasElement(_, _)
\* the document has an element of that name
HasElement(n, tag) == n.tag = tag \/ \E i \in 1..Len(n.kids) : HasElement(n.kids[i], tag)

\* C22 (as stated; the code violates it): the bytes generateHTML renders,
\* which the site writes to the file and serves, hold no script element: the
\* script elements of the model's document, nested ones too, were removed
\* before the page was rendered.
C22_NoScriptRendered ==
    sanPc = "rendered" => \A i \in 1..Len(sanRes.v) : sanRes.v[i] # "<script"

\* what sanitize.HTMLSanitizeElements, which generateHTML does not call, would
\* have done to the documents of the model whose elements are within maxDepth
ElementsWouldBeRemoved ==
    sanPc = "sanitized" => ~HasElement(HTMLSanitizeElements(sanRes.doc, {"script", "style"}), "script")

RECURSIVE AttrPairs(_, _)
\* every attribute of the document before (n) and after (m) the sanitizing:
\* its key, the input value and the value after
AttrPairs(n, m) ==
    {[key |-> n.attrs[i].key, in |-> n.attrs[i].val, out |-> m.attrs[i].val] :
        i \in 1..Len(n.attrs)}
    \cup UNION {AttrPairs(n.kids[i], m.kids[i]) : i \in 1..Len(n.kids)}

\* the entries of a srcset value: the parts between commas that are not blank,
\* each a URL up to the first space and the descriptor that follows it
SrcsetParts(v) ==
    SelectSeq([i \in 1..Len(Split(v, ",")) |-> TrimSpace(Split(v, ",")[i])],
              LAMBDA part : part # <<>>)
EntryURL(part) == IF IndexOf(part, " ") = 0 THEN part ELSE Before(part, IndexOf(part, " "))
EntryDescriptor(part) ==
    IF IndexOf(part, " ") = 0 THEN <<>>
    ELSE Join(Fields(From(part, IndexOf(part, " "))), <<" ">>)

\* the URL attributes and the srcset attributes of the model's documents
DocURLKeys == {"href", "SRC"}
DocSrcsetKeys == {"srcset"}

\* the URL part of C23, common to the statement and its amendment
URLAttrsSanitized ==
    \A a \in AttrPairs(sanArg, sanRes.doc) :
        /\ a.key \in DocURLKeys => a.out = sanitizeURL(a.in) /\ Str(a.out) \in sanRes.urls
        /\ a.key \in DocSrcsetKeys =>
              \A i \in 1..Len(SrcsetParts(a.in)) :
                  Str(sanitizeURL(EntryURL(SrcsetParts(a.in)[i]))) \in sanRes.urls

\* C23 (as stated; it does not hold): after a successful
\* HTMLSanitizeAndExtractUrls every URL attribute holds sanitizeURL of its input
\* value, which is in the URL set, and every srcset holds the ", "-joined list of
\* sanitizeURL(url), one space and the descriptor, every sanitized url being in
\* the URL set.
C23_Original ==
    sanPc = "sanitized" =>
        /\ URLAttrsSanitized
        /\ \A a \in AttrPairs(sanArg, sanRes.doc) :
              a.key \in DocSrcsetKeys =>
                a.out = Join([i \in 1..Len(SrcsetParts(a.in)) |->
                                sanitizeURL(EntryURL(SrcsetParts(a.in)[i])) \o <<" ">>
                                \o EntryDescriptor(SrcsetParts(a.in)[i])],
                             <<",", " ">>)

\* C23 (amended): as C23, but in a srcset the space and the descriptor follow
\* sanitizeURL(url) only for an entry that has a descriptor; an entry without
\* one is sanitizeURL(url) alone.
C23_Amended ==
    sanPc = "sanitized" =>
        /\ URLAttrsSanitized
        /\ \A a \in AttrPairs(sanArg, sanRes.doc) :
              a.key \in DocSrcsetKeys =>
                a.out = Join([i \in 1..Len(SrcsetParts(a.in)) |->
                                sanitizeURL(EntryURL(SrcsetParts(a.in)[i]))
                                \o (IF EntryDescriptor(SrcsetParts(a.in)[i]) = <<>> THEN <<>>
                                    ELSE <<" ">> \o EntryDescriptor(SrcsetParts(a.in)[i]))],
                             <<",", " ">>)

\* a document was sanitized that has, below the body, a URL attribute with an
\* upper-case key and a srcset of two entries with descriptors
C23_Witness ==
    /\ sanPc = "sanitized"
    /\ \E a \in AttrPairs(sanArg, sanRes.doc) : a.key = "SRC" /\ a.out # a.in
    /\ \E a \in AttrPairs(sanArg, sanRes.doc) :
          a.key = "srcset" /\ Len(SrcsetParts(a.in)) = 2 /\ a.out # a.in

(* ------------------------- single-flight: claims ------------------------ *)

\* the work items for a key that the pool has accepted and whose worker has
\* not detached the waiter list: the queued ones and the ones workers hold
QueuedFor(key) == {n \in 1..Len(workCh) : workCh[n].key = key}
HeldFor(key) == {w \in Workers : wItem[w] # <<>> /\ wItem[w][1].key = key}
ItemsFor(key) == Cardinality(QueuedFor(key)) + Cardinality(HeldFor(key))

PoolKeys == {workCh[n].key : n \in 1..Len(workCh)} \cup {wItem[w][1].key : w \in {x \in Workers : wItem[x] # <<>>}}

\* C25: a key is in Server.pending iff exactly one work item for it is queued
\* or held by a worker that has not detached the list, and there is never a
\* second one; every list in the map is non-empty; and when the worker's
\* deferred function has run, the key is absent.
C25_PendingIffItem ==
    /\ [](\A key \in DOMAIN pending \cup PoolKeys :
            /\ ItemsFor(key) <= 1
            /\ key \in DOMAIN pending <=> ItemsFor(key) = 1
            /\ key \in DOMAIN pending => pending[key] # <<>>)
    /\ [][\A w \in Workers :
            wpc[w] = "detach" /\ wpc'[w] = "recv" => wl[w].key \notin DOMAIN pending']_vars

\* a worker is about to detach the list of a key under which two requests are
\* registered, its item being the only one for the key
C25_Witness ==
    \E key \in DOMAIN pending, w \in Workers :
        /\ Len(pending[key]) = 2
        /\ HeldFor(key) = {w} /\ QueuedFor(key) = {}
        /\ wpc[w] = "detach" /\ wl[w].key = key

\* the places of a request in the lists of Server.pending
PlacesOf(r) ==
    UNION {{<<key, n>> : n \in {m \in 1..Len(pending[key]) : pending[key][m] = r}} :
              key \in DOMAIN pending}

\* C26: the worker's send of the final HandleFunc on a waiter's resultCh never
\* fails, so the panic "result channel must have capacity" is unreachable: a
\* request is in at most one place of one list, which it entered in
\* singleFlightGenerate; while it is there nothing has been sent to it; and a
\* result is sent only to a request of the detached list, whose channel is
\* empty, and which is in no list afterwards.
C26_SendSucceeds ==
    /\ [](~fatal)
    /\ [](\A r \in Requests :
            /\ Cardinality(PlacesOf(r)) <= 1
            /\ Len(resultCh[r]) <= ResultChannelLength
            /\ PlacesOf(r) # {} =>
                  /\ resultCh[r] = <<>>
                  /\ got[r].kind \in {"none", "abandoned", "invalidSlugPanic"})
    /\ [][\A r \in Requests :
            /\ PlacesOf(r)' # {} /\ PlacesOf(r) = {} => rpc[r] = "register" /\ rpc'[r] # "register"
            /\ Len(resultCh'[r]) > Len(resultCh[r]) =>
                  /\ resultCh[r] = <<>>
                  /\ PlacesOf(r) # {} /\ PlacesOf(r)' = {}]_vars

\* one detached list held two waiters, and both have their result in their
\* channel; one of them had given up before it was sent
C26_Witness ==
    \E r1, r2 \in Requests :
        /\ r1 # r2 /\ rslug[r1] = rslug[r2]
        /\ Len(resultCh[r1]) = 1 /\ Len(resultCh[r2]) = 1
        /\ r1 \in cancelled

(* --------------------------- resources: claims -------------------------- *)

\* the workers inside generateHTML's loop over the URLs: between a read of
\* s.resources and the insertion that follows it
InMapLoop == {w \in Workers : wpc[w] = "insert"}

\* C27 (as stated; the code violates it): the reads and insertions of
\* s.resources are serialized by the Site mutex: no two workers are between
\* their read of the map and their insertion at once, and a slug that has a
\* Resource keeps that Resource object.
C27_MapGuarded ==
    /\ [](Cardinality(InMapLoop) <= 1)
    /\ [][resInit => \A slug \in DOMAIN resources :
            slug \in DOMAIN resources' /\ resources'[slug] = resources[slug]]_vars

\* the workers inside a writeFileAtomic call for the artifact of a slug, and
\* inside the one for outline.txt
Writing(slug) == {w \in Workers : wpc[w] \in {"open", "write", "rename"} /\ wl[w].slug = slug}
OutlineWriting == {w \in Workers : wpc[w] = "outlineWrite"}

\* C28: no two writeFileAtomic calls for the same name overlap: at most one
\* worker is writing the artifact of a slug, and it holds the mutex of the
\* Resource it generates; at most one worker is writing outline.txt.
C28_WritesSerialized ==
    /\ \A slug \in Slugs :
          /\ Cardinality(Writing(slug)) <= 1
          /\ \A w \in Writing(slug) : resMu[wl[w].rid] = w
    /\ Cardinality(OutlineWriting) <= 1

\* a worker is writing the artifact of a slug while another worker, which
\* generates the same slug for another key, waits for the Resource's mutex
C28_Witness ==
    \E w1, w2 \in Workers :
        /\ wpc[w1] = "write" /\ wpc[w2] = "lock"
        /\ wl[w1].slug = wl[w2].slug /\ wl[w1].rid = wl[w2].rid
        /\ wl[w1].key # wl[w2].key

\* C29 (as stated; the code violates it): a GenerateFunc that gets the
\* Resource mutex of its slug after a generation of that slug has set the size
\* and written the file returns the file-streaming HandleFunc at once: it does
\* not go on to the prompter and the model, and the file of the slug is not
\* written a second time.
C29_ServesFileAfterGeneration ==
    /\ [][\A w \in Workers :
            (wpc[w] = "lock" /\ wpc'[w] # "lock" /\ writes[wl[w].slug] > 0) =>
                /\ wpc'[w] = "detach"
                /\ wl'[w].res.kind = "file" /\ wl'[w].res.slug = wl[w].slug
                /\ wl'[w].res.size > 0]_vars
    /\ [](\A slug \in Slugs : writes[slug] <= 1)

\* the GenerateFunc of worker w returns an error HandleFunc in this step: the
\* prompter, the model, the size check or writeFileAtomic failed
Fails(w) == wpc[w] \notin {"detach", "recv", "got"} /\ wpc'[w] = "detach" /\ wl'[w].res.kind = "error"

\* C30 (as stated; the code violates it): when a generation fails, the size of
\* the slug's Resource is 0 and the file {slug} does not exist, the Resource
\* mutex is free, every waiter of the key is sent the error HandleFunc, and a
\* later request for a slug whose generation failed and has not succeeded
\* since gets a GenerateFunc again.
C30_FailureLeavesNothing ==
    /\ [][\A w \in Workers : Fails(w) =>
            /\ resSize'[wl[w].rid] = 0
            /\ wl[w].slug \notin DOMAIN files'
            /\ resMu'[wl[w].rid] = 0]_vars
    /\ [][\A w \in Workers :
            (wpc[w] = "detach" /\ wl[w].res.kind = "error" /\ wpc'[w] = "recv") =>
                \A r \in Requests :
                    (\E n \in 1..Len(Waiters(wl[w].key)) : Waiters(wl[w].key)[n] = r) =>
                        resultCh'[r] = <<wl[w].res>>]_vars
    /\ [][\A r \in Requests :
            (/\ Arrives(r) /\ ~unsafe
             /\ \E q \in Requests : /\ rpc[q] = "done" /\ got[q].kind = "error500"
                                     /\ got[q].slug = (IF resInit /\ rslug'[r] \in DOMAIN resources
                                                       THEN rslug'[r] ELSE NotFoundSlug)
                                     /\ writes[got[q].slug] = 0) =>
                rpc'[r] = "register" /\ rgen'[r] \in {rslug'[r], NotFoundSlug}]_vars

(* ----------------------------- links: claims ---------------------------- *)

\* the slugs that generations have journaled in links.txt
Journaled == IF linksTxt = <<>> THEN {} ELSE {linksTxt[1][n] : n \in 1..Len(linksTxt[1])}

\* C31 (as stated; the code violates it): the links a generation of an HTML
\* slug takes for its prompt hold every slug that earlier generations have
\* added to resources and to links.txt.
C31_LinksKnown ==
    [][\A w \in Workers :
          (wpc[w] = "lock" /\ wpc'[w] = "prompt" /\ IsHTML(wl[w].slug)) =>
              \A u \in Journaled \cap DOMAIN resources :
                  \E n \in 1..Len(wl'[w].links) : wl'[w].links[n] = u]_vars
(* --------------------------- unsafe: claims --------------------------- *)

\* C32: whenever the generation of an .html slug ends with Unsafe, the response
\* of every waiter of that slug that was not cancelled ends with the
\* location.reload() script, whether the waiter took a chunk before the result
\* or the result first
C32_UnsafeReloads ==
    \A r \in Requests :
        (rpc[r] = "done" /\ IsHTML(rslug[r]) /\ got[r].kind = "unsafe" /\ r \notin cancelled)
            => got[r].tail = TailReload

\* a waiter that took a chunk before the Unsafe result: Finish wrote the reload
C32_ReloadAfterChunk ==
    \E r \in Requests :
        /\ rpc[r] = "done" /\ got[r].kind = "unsafe" /\ r \notin cancelled
        /\ got[r].chunks # <<>> /\ got[r].tail = TailReload

(* -------------------------- progress: claims -------------------------- *)

\* the worker w publishes a chunk in this step
Publishes(w) == wl'[w].n = wl[w].n + 1

\* C33: publishing a progress chunk never blocks the generator on a waiter: the
\* generator can always publish its next chunk and can always hand over its
\* result, however full the waiters' progress channels are; a publish leaves a
\* full channel as it is (the chunk is dropped for that waiter) and appends the
\* chunk to the channel of every other waiter of the slug; and the final
\* ServeFunc reaches every waiter, those with a full progress channel included
C33_PublishNeverBlocks ==
    /\ [](\A w \in Workers :
            /\ (~fatal /\ wpc[w] = "model" /\ wl[w].n < MaxChunks) => ENABLED GenProgress(w)
            /\ (~fatal /\ wpc[w] = "detach") => ENABLED GenDetach(w))
    /\ [][\A w \in Workers :
            /\ Publishes(w) =>
                  \A r \in Requests :
                      progressCh'[r] =
                          IF /\ r \in Subscribers(wl[w].key)
                             /\ Len(progressCh[r]) < ProgressChannelLength
                          THEN Append(progressCh[r], wl'[w].n)
                          ELSE progressCh[r]
            /\ (wpc[w] = "detach" /\ wpc'[w] # "detach") =>
                  \A r \in Subscribers(wl[w].key) : resultCh'[r] = <<wl[w].res>>]_vars

\* one waiter's progress channel is full of unread chunks and lacks the last
\* chunk published, which another waiter of the slug has, and both have been
\* sent the final ServeFunc
C33_Witness ==
    \E r, q \in Requests :
        /\ r # q /\ rslug[r] = rslug[q]
        /\ Len(progressCh[r]) = ProgressChannelLength
        /\ \A n \in 1..Len(progressCh[r]) : progressCh[r][n] # MaxChunks
        /\ \E n \in 1..Len(got[q].chunks) : got[q].chunks[n] = MaxChunks
        /\ resultCh[r] # <<>>
        /\ rpc[q] = "done" /\ got[q].kind \in {"served", "error500"}

(* ---------------------------- locks: claims ---------------------------- *)

\* each mutex has at most one holder
MutexesExclusive ==
    \A w, x \in Workers :
        w # x => /\ ~(HoldsServerMu(w) /\ HoldsServerMu(x))
                 /\ ~(HoldsSiteMu(w) /\ HoldsSiteMu(x))
                 /\ ~(HoldsOutlineMu(w) /\ HoldsOutlineMu(x))

\* the positions at which a worker is inside a call of the model
InModelCall == {"lkSafety", "lkOutlineText", "model"}

\* the step is one of worker w
Moves(w) == wpc'[w] # wpc[w]

\* a step that sends on the progress or on the result channel of request r
SendsTo(r) ==
    \/ Len(progressCh'[r]) > Len(progressCh[r])
    \/ Len(resultCh'[r]) > Len(resultCh[r])

\* C34: the Server mutex is never held while sending on a waiter's channel, for
\* progress chunks as for the final ServeFunc; and the Site mutex is never held
\* across a model call
C34_NoSendUnderMutex ==
    /\ [][\A r \in Requests, w \in Workers :
              (SendsTo(r) /\ Moves(w)) => ~HoldsServerMu(w)]_vars
    /\ [](\A w \in Workers : wpc[w] \in InModelCall => ~HoldsSiteMu(w))

\* the final ServeFunc is sent with the Server mutex free
C34_ResultSentUnlocked ==
    [][\A r \in Requests, w \in Workers :
          (Len(resultCh'[r]) > Len(resultCh[r]) /\ Moves(w)) => ~HoldsServerMu(w)]_vars

(* ---------------------------- liveness: claims -------------------------- *)

\* C35: every waiter that was registered in the pending map eventually has one
\* final ServeFunc on its resultCh, and is sent one only while it is registered
\* and its channel is empty, whatever the registrations did: joining an entry
\* whose worker is finishing, or registering again after a rejected submission
C35_WaiterServed ==
    /\ \A r \in Requests : Registered(r) ~> (Len(resultCh[r]) = 1 /\ ~Registered(r))
    /\ [][\A r \in Requests :
              Len(resultCh'[r]) > Len(resultCh[r]) =>
                  /\ Registered(r) /\ resultCh[r] = <<>>
                  /\ ~Registered(r)']_vars

\* a request was rejected for over capacity, and a later request for the same
\* path, registered afterwards, has been sent its final ServeFunc
C35_Witness ==
    \E r, q \in Requests :
        /\ r < q /\ rslug[r] = rslug[q]
        /\ got[r].kind = "overCapacity"
        /\ resultCh[q] # <<>> /\ ~Registered(q)

(* ---------------------------- deadlock: claims -------------------------- *)

\* the positions at which a worker is about to take a mutex
WaitsResourceMu(w) == wpc[w] = "lock"
WaitsSiteMu(w) == wpc[w] \in {"got", "links"}
WaitsOutlineMu(w) == wpc[w] \in {"prompt", "lkInitOutline", "lkReread"}
WaitsServerMu(w) == wpc[w] \in {"cbLock", "detach"}

\* the mutexes are taken in the order Resource, then outline lock, then Server
\* mutex, the Site mutex only with at most the Resource mutex held and released
\* before any other is taken; and a worker blocked on the work channel holds none
LockOrder ==
    \A w \in Workers :
        /\ WaitsResourceMu(w) =>
              ~HoldsResourceMu(w) /\ ~HoldsSiteMu(w) /\ ~HoldsOutlineMu(w) /\ ~HoldsServerMu(w)
        /\ WaitsSiteMu(w) => ~HoldsSiteMu(w) /\ ~HoldsOutlineMu(w) /\ ~HoldsServerMu(w)
        /\ HoldsSiteMu(w) => ~HoldsOutlineMu(w) /\ ~HoldsServerMu(w)
        /\ WaitsOutlineMu(w) => ~HoldsSiteMu(w) /\ ~HoldsOutlineMu(w) /\ ~HoldsServerMu(w)
        /\ WaitsServerMu(w) => ~HoldsSiteMu(w) /\ ~HoldsServerMu(w)
        /\ wpc[w] = "recv" =>
              ~HoldsResourceMu(w) /\ ~HoldsSiteMu(w) /\ ~HoldsOutlineMu(w) /\ ~HoldsServerMu(w)

\* every worker is back at its receive and every request handler has returned
AllFinished == Quiescent /\ \A r \in Requests : rpc[r] \in {"new", "done"}

\* C36: the system is deadlock-free: the locks are acquired in an acyclic
\* order, no worker waits on a channel while holding one, and, the model calls
\* terminating, every generator comes back to its receive and every request
\* handler returns, again and again
C36_DeadlockFree ==
    /\ [](LockOrder /\ ~fatal)
    /\ []<>AllFinished

\* a worker inside the progress callback, holding the Resource mutex, the
\* outline lock and the Server mutex, while the other worker waits for the
\* outline lock and a request handler waits on its channels
C36_Witness ==
    \E w, x \in Workers :
        /\ w # x
        /\ HoldsResourceMu(w) /\ HoldsOutlineMu(w) /\ HoldsServerMu(w)
        /\ WaitsOutlineMu(x) /\ HoldsResourceMu(x)
        /\ \E r \in Requests : rpc[r] \in Waiting

(* ----------------------- progress writer: claims ----------------------- *)

\* pw.Start has been called on the response of request r
Started(r) == IsHTML(rslug[r]) /\ got[r].status = StartStatus /\ got[r].chunks # <<>>

\* pw.Finish has been called on the response of request r
Finished(r) == got[r].tail # NoTail

\* the handler of r takes its final HandleFunc in this step
TakesResult(r) == rpc[r] \in Waiting /\ rpc'[r] = "done" /\ Len(resultCh'[r]) < Len(resultCh[r])

\* C37: for each streaming HTML response, Start is called at most once and
\* before any Chunk, Finish at most once and only after Start, nothing is
\* written after Finish, and the final ServeFunc is run directly on the
\* response only if Start was never called
C37_WriterProtocol ==
    /\ [](\A r \in Requests :
             /\ got[r].chunks # <<>> => Started(r)
             /\ Finished(r) => Started(r) /\ rpc[r] = "done")
    /\ [][\A r \in Requests :
             /\ (Started(r)' /\ ~Started(r)) => (rpc[r] = "wait0" /\ got[r].status = NoStatus)
             /\ Started(r) => Started(r)'
             /\ Finished(r) => got'[r] = got[r]
             /\ (TakesResult(r) /\ IsHTML(rslug[r])) => (Finished(r)' <=> Started(r))]_vars

\* one response went through Start, two Chunks and Finish, which wrote the
\* reload; on another the final ServeFunc ran directly, no Start before it
C37_Witness ==
    \E r, q \in Requests :
        /\ rpc[r] = "done" /\ Len(got[r].chunks) >= 2 /\ got[r].tail = TailReload
        /\ rpc[q] = "done" /\ IsHTML(rslug[q]) /\ got[q].kind = "served"
        /\ ~Started(q) /\ ~Finished(q)

(* ---------------------------- not-found: claims ------------------------- *)

\* worker w leaves r.mu.Lock() of the not-found Resource in this step
LocksNotFound(w) == wpc[w] = "lock" /\ wpc'[w] # "lock" /\ wl[w].slug = NotFoundSlug

\* a generation of the not-found page for another key has ended: its worker is
\* at the deferred function, or a waiter of that key has been sent the result
EarlierNotFound(w) ==
    \/ \E x \in Workers : x # w /\ wpc[x] = "detach" /\ wl[x].slug = NotFoundSlug
    \/ \E r \in Requests : /\ rgen[r] = NotFoundSlug /\ rslug[r] # wl[w].key
                           /\ (Delivered(r) \/ got[r].kind \in {"served", "error500"})

\* every unknown path is generated as the not-found slug under its own key
OwnKey ==
    /\ \A r \in Requests : (rgen[r] # "" /\ rgen[r] # rslug[r]) => rgen[r] = NotFoundSlug
    /\ \A w \in Workers : wl[w].key # wl[w].slug => wl[w].slug = NotFoundSlug
    /\ \A k \in DOMAIN pending : \A n \in 1..Len(pending[k]) : rslug[pending[k][n]] = k

GeneratesNotFound(w) ==
    wl[w].slug = NotFoundSlug /\ wpc[w] \notin {"recv", "got", "lock", "detach"}

Reloaded == InitResources

\* C39: at a quiescent point, re-initializing the Site from its directory
\* reproduces the in-memory cache: the same keys and, for every key, the same
\* size, so that no materialized slug is generated again after a restart
C39_ReloadReproduces ==
    (Quiescent /\ resInit) =>
        /\ DOMAIN Reloaded.map = DOMAIN resources
        /\ \A k \in DOMAIN resources \cap DOMAIN Reloaded.map :
               Reloaded.size[Reloaded.map[k]] = SizeOf(k)

\* a quiescent point after a generation that journaled a link, at which the
\* reloaded cache equals the one in memory
C39_ReloadAgrees ==
    /\ Quiescent /\ resInit
    /\ linksTxt # <<>> /\ \E s \in DOMAIN resources : writes[s] > 0
    /\ DOMAIN Reloaded.map = DOMAIN resources
    /\ \A k \in DOMAIN resources : Reloaded.size[Reloaded.map[k]] = SizeOf(k)

(* ------------------------------ Close: claims --------------------------- *)

\* C40: after Close has been called the pool accepts no further work: a DoWork
\* call made after Close returns false, does not invoke do(), and does not
\* crash the program
C40_DoWorkAfterClose ==
    /\ [][\A i \in Items : (Submits(i) /\ chClosed) => (ret'[i] = "false" /\ workCh' = workCh)]_vars
    /\ [](\A i \in Items : ret[i] # "true" => doCount[i] = 0)

\* no item is queued and no do() is called for a DoWork made after Close
C40_NothingAcceptedAfterClose ==
    /\ [][\A i \in Items : (Submits(i) /\ chClosed) => (ret'[i] # "true" /\ workCh' = workCh)]_vars
    /\ [](\A i \in Items : ret[i] # "true" => doCount[i] = 0)

====
